---- MODULE Spec2Model ----
(***************************************************************************)
(* Transcript search: the client-side search engine embedded in the page   *)
(* generated by app.py (query parser, term matcher, transcript scanner,    *)
(* result renderer) as a state machine.                                    *)
(*                                                                         *)
(* A JavaScript string is a sequence of one-character strings; positions   *)
(* are 0-based as in the source, and Substr(s, from, to) is the source's   *)
(* s.substring(from, to).                                                  *)
(***************************************************************************)
EXTENDS Integers, Sequences, FiniteSets, TLC

(***************************************************************************)
(* Bounds of the model.                                                    *)
(***************************************************************************)
\* Longest query the parser is run on exhaustively.
MaxQueryLen == 5
\* Most transcripts of a corpus and most utterances of a transcript.
MaxTranscripts == 2
MaxUtterances == 2
\* Longest text and longest term list the matcher is run on exhaustively.
MaxTextLen == 3
MaxTerms == 2
\* Largest utterance index the renderer is run on.
MaxIndex == 7
\* Keystrokes and timer fires are counted up to MaxBurst.
MaxBurst == 2
\* Questions the chat sends are counted up to MaxAsks.
MaxAsks == 2
\* Longest enumerated list of transcripts loaded on the server.
MaxLoaded == 3

QUOTE == "\""
SEMI == ";"
SPACE == " "

VARIABLES
  TRANSCRIPTS,      \* the embedded corpus
  inputValue,       \* searchInput.value
  caseSensitive,    \* the case toggle
  speakerFilter,    \* 'all', 'agent' or 'customer'
  debounceTimer,    \* the timer id the input listener holds, 0 for null
  timers,           \* ids of the timers scheduled and not yet fired or cleared
  resultCountEl,    \* text of the three statistics
  matchCountEl,
  searchTimeEl,
  resultsContainer, \* content of the results container
  handler,          \* the event handler that ran last
  runQuery,         \* locals query, terms, results and totalMatches of
  runTerms,         \* the last run of performSearch
  runResults,
  runTotalMatches,
  scanned,          \* did that run reach the scan of the corpus?
  runThrew,         \* did that run end in an uncaught TypeError?
  modalActive,      \* is the full-transcript modal open?
  modalBody,        \* content of the modal
  observed,         \* a run of performSearch noted by an observer
  burst,            \* the keystrokes of the latest burst and the scans
                    \* its timers have run
  call,             \* a function of the page applied on its own: its
  ret,              \* arguments and its return value
  server,           \* assistant_server.py: a request to /api/ask in progress
  chat              \* the chat panel of the page

\* The statistics and the results container.
statsVars == <<resultCountEl, matchCountEl, searchTimeEl, resultsContainer>>

\* The locals of the last run of performSearch.
runVars == <<runQuery, runTerms, runResults, runTotalMatches, scanned, runThrew>>

modalVars == <<modalActive, modalBody>>

pageVars == <<TRANSCRIPTS, inputValue, caseSensitive, speakerFilter, debounceTimer,
              timers, statsVars, handler, runVars, modalVars, observed, burst>>

\* The assistant: its server and the chat panel.
assistantVars == <<server, chat>>

vars == <<pageVars, call, ret, assistantVars>>

(***************************************************************************)
(* String primitives of the JavaScript runtime.                            *)
(***************************************************************************)
Substr(s, from, to) == SubSeq(s, from + 1, to)

\* One character of String.prototype.toLowerCase.
LowerChar(c) ==
  CASE c = "A" -> "a"
    [] c = "B" -> "b"
    [] c = "C" -> "c"
    [] c = "H" -> "h"
    [] c = "I" -> "i"
    [] c = "M" -> "m"
    [] OTHER -> c

toLowerCase(s) == [i \in 1..Len(s) |-> LowerChar(s[i])]

\* Does value occur in s at 0-based position pos?
OccursAt(s, value, pos) ==
  /\ pos >= 0
  /\ pos + Len(value) <= Len(s)
  /\ \A k \in 1..Len(value) : s[pos + k] = value[k]

\* String.prototype.indexOf(value, pos): a left-to-right scan from pos.
RECURSIVE indexOf(_, _, _)
indexOf(s, value, pos) ==
  IF Len(value) = 0 THEN (IF pos < Len(s) THEN pos ELSE Len(s))
  ELSE IF pos + Len(value) > Len(s) THEN -1
  ELSE IF OccursAt(s, value, pos) THEN pos
  ELSE indexOf(s, value, pos + 1)

\* String.prototype.includes(value).
includes(s, value) == indexOf(s, value, 0) # -1

RECURSIVE trimStart(_)
trimStart(s) ==
  IF Len(s) > 0 /\ s[1] = SPACE THEN trimStart(Tail(s)) ELSE s

RECURSIVE trimEnd(_)
trimEnd(s) ==
  IF Len(s) > 0 /\ s[Len(s)] = SPACE THEN trimEnd(SubSeq(s, 1, Len(s) - 1)) ELSE s

\* String.prototype.trim.
trim(s) == trimEnd(trimStart(s))

\* String.prototype.split(sep) for a one-character separator.
RECURSIVE split(_, _)
split(s, sep) ==
  LET i == indexOf(s, <<sep>>, 0) IN
  IF i = -1 THEN <<s>>
  ELSE <<Substr(s, 0, i)>> \o split(Substr(s, i + 1, Len(s)), sep)

\* String.prototype.replace(pattern, '') with a string pattern: only the
\* first occurrence of pattern in s is removed.
replaceFirst(s, pattern) ==
  LET i == indexOf(s, pattern, 0) IN
  IF i = -1 THEN s
  ELSE Substr(s, 0, i) \o Substr(s, i + Len(pattern), Len(s))

\* Array.prototype.filter.
RECURSIVE filterNonEmpty(_)
filterNonEmpty(parts) ==
  IF parts = <<>> THEN <<>>
  ELSE IF Len(Head(parts)) > 0
       THEN <<Head(parts)>> \o filterNonEmpty(Tail(parts))
       ELSE filterNonEmpty(Tail(parts))

(***************************************************************************)
(* Query parser.                                                           *)
(***************************************************************************)
\* quoteRegex.exec(query) for /"([^"]+)"/g resuming at lastIndex: the
\* leftmost position at or after lastIndex holding a quote, one or more
\* non-quote characters and a quote.
RECURSIVE quoteRegexExec(_, _)
quoteRegexExec(query, lastIndex) ==
  LET open == indexOf(query, <<QUOTE>>, lastIndex) IN
  IF open = -1 THEN [found |-> FALSE]
  ELSE LET close == indexOf(query, <<QUOTE>>, open + 1) IN
       IF close = -1 THEN [found |-> FALSE]
       ELSE IF close = open + 1 THEN quoteRegexExec(query, open + 1)
       ELSE [found |-> TRUE, index |-> open, lastIndex |-> close + 1]

\* The while loop of parseSearchQuery: one phrase term per regex match, and
\* the text of the match removed from remaining by String.replace.
RECURSIVE extractPhrases(_, _, _, _)
extractPhrases(query, lastIndex, terms, remaining) ==
  LET match == quoteRegexExec(query, lastIndex) IN
  IF ~match.found THEN [terms |-> terms, remaining |-> remaining]
  ELSE extractPhrases(
         query, match.lastIndex,
         Append(terms, [type |-> "phrase",
                        value |-> Substr(query, match.index + 1, match.lastIndex - 1)]),
         replaceFirst(remaining, Substr(query, match.index, match.lastIndex)))

keywordTerms(parts) == [i \in 1..Len(parts) |-> [type |-> "keyword", value |-> parts[i]]]

parseSearchQuery_keywordsFirst(query) ==
  LET extracted == extractPhrases(query, 0, <<>>, query)
      pieces == split(extracted.remaining, SEMI)
      parts == filterNonEmpty([i \in 1..Len(pieces) |-> trim(pieces[i])])
  IN keywordTerms(parts) \o extracted.terms

parseSearchQuery(query) ==
  LET extracted == extractPhrases(query, 0, <<>>, query)
      pieces == split(extracted.remaining, SEMI)
      parts == filterNonEmpty([i \in 1..Len(pieces) |-> trim(pieces[i])])
  IN extracted.terms \o keywordTerms(parts)

(***************************************************************************)
(* Term matcher.                                                           *)
(***************************************************************************)
\* Case folding of the text and of each term value: verbatim when case
\* sensitive, lower-cased otherwise.
foldCase_always(s, isCaseSensitive) == toLowerCase(s)

foldCase(s, isCaseSensitive) == IF isCaseSensitive THEN s ELSE toLowerCase(s)

\* The for loop of matchesAllTerms from the k-th term on: false at the
\* first term searchText does not include.
RECURSIVE matchesLoop(_, _, _, _)
matchesLoop(searchText, terms, isCaseSensitive, k) ==
  IF k > Len(terms) THEN TRUE
  ELSE LET searchValue == foldCase(terms[k].value, isCaseSensitive)
       IN IF ~includes(searchText, searchValue) THEN FALSE
          ELSE matchesLoop(searchText, terms, isCaseSensitive, k + 1)

matchesAllTerms(text, terms, isCaseSensitive) ==
  LET searchText == foldCase(text, isCaseSensitive)
  IN matchesLoop(searchText, terms, isCaseSensitive, 1)

\* pos += searchValue.length: where the scan resumes after an occurrence
\* found at pos.
resumeAt_next(pos, searchValue) == pos + 1

resumeAt(pos, searchValue) == pos + Len(searchValue)

\* The while loop of countMatches for one term.
RECURSIVE countFrom(_, _, _, _)
countFrom(searchText, searchValue, pos, count) ==
  LET found == indexOf(searchText, searchValue, pos) IN
  IF found = -1 THEN count
  ELSE countFrom(searchText, searchValue, resumeAt(found, searchValue), count + 1)

\* let pos = 0: where the scan of the text for the k-th term starts.
firstPos_byTerm(k) == k - 1

firstPos(k) == 0

\* The for loop of countMatches from the k-th term on.
RECURSIVE countLoop(_, _, _, _, _)
countLoop(searchText, terms, isCaseSensitive, k, count) ==
  IF k > Len(terms) THEN count
  ELSE LET searchValue == foldCase(terms[k].value, isCaseSensitive)
       IN countLoop(searchText, terms, isCaseSensitive, k + 1,
                    countFrom(searchText, searchValue, firstPos(k), count))

countMatches(text, terms, isCaseSensitive) ==
  LET searchText == foldCase(text, isCaseSensitive)
  IN countLoop(searchText, terms, isCaseSensitive, 1, 0)

(***************************************************************************)
(* Highlighter of the result cards.                                        *)
(***************************************************************************)
\* The characters the escaping step of createHighlightRegex prefixes with a
\* backslash.
MetaChars == {".", "*", "+", "?", "^", "$", "{", "}", "(", ")", "|", "[", "]", "\\"}

\* The escaping step: replace(/[.*+?^${}()|[\]\\]/g, '\\$&').
escapeRegExp_none(value) == value

RECURSIVE escapeRegExp(_)
escapeRegExp(value) ==
  IF value = <<>> THEN <<>>
  ELSE (IF Head(value) \in MetaChars THEN <<"\\", Head(value)>> ELSE <<Head(value)>>)
       \o escapeRegExp(Tail(value))

\* The alternatives of the group '(' + patterns.join('|') + ')': the
\* patterns, each escaped so that it holds no bare '|'. No pattern joins to
\* the empty source, and the group () has one alternative, the empty one.
alternatives(patterns) == IF Len(patterns) = 0 THEN <<<<>>>> ELSE patterns

\* A regular expression is its alternatives (pattern sources, in order) and
\* its ignoreCase flag.
createHighlightRegex(terms, isCaseSensitive) ==
  [patterns |-> alternatives([i \in 1..Len(terms) |-> escapeRegExp(terms[i].value)]),
   ignoreCase |-> ~isCaseSensitive]

\* The atoms of one alternative: a backslash makes the next character a
\* literal, an unescaped dot matches any character, any other character is
\* a literal.
RECURSIVE patternAtoms(_)
patternAtoms(pattern) ==
  IF pattern = <<>> THEN <<>>
  ELSE IF Head(pattern) = "\\" /\ Len(pattern) >= 2
       THEN <<[any |-> FALSE, ch |-> pattern[2]]>> \o patternAtoms(SubSeq(pattern, 3, Len(pattern)))
       ELSE <<[any |-> Head(pattern) = ".", ch |-> Head(pattern)]>> \o patternAtoms(Tail(pattern))

atomsMatchAt(text, atoms, pos, ignoreCase) ==
  /\ pos + Len(atoms) <= Len(text)
  /\ \A k \in 1..Len(atoms) :
       \/ atoms[k].any
       \/ IF ignoreCase THEN LowerChar(text[pos + k]) = LowerChar(atoms[k].ch)
          ELSE text[pos + k] = atoms[k].ch

\* The first alternative, from the k-th on, that matches at pos; 0 if none.
RECURSIVE firstAlternative(_, _, _, _)
firstAlternative(text, regex, pos, k) ==
  IF k > Len(regex.patterns) THEN 0
  ELSE IF atomsMatchAt(text, patternAtoms(regex.patterns[k]), pos, regex.ignoreCase) THEN k
  ELSE firstAlternative(text, regex, pos, k + 1)

OpenMark ==
  <<"<", "m", "a", "r", "k", " ", "c", "l", "a", "s", "s", "=", "\"",
    "h", "i", "g", "h", "l", "i", "g", "h", "t", "\"", ">">>

CloseMark == <<"<", "/", "m", "a", "r", "k", ">">>

\* The positions of text where an alternative of the expression matches.
matchPositions(text, regex) ==
  {p \in 0..Len(text) : firstAlternative(text, regex, p, 1) # 0}

\* text.replace(highlightRegex, '<mark class="highlight">$1</mark>') from
\* position pos on: a global, left-to-right, non-overlapping replacement.
\* The search resumes after a match, and one character further after an
\* empty match.
RECURSIVE highlightFrom(_, _, _, _)
highlightFrom(text, regex, positions, pos) ==
  LET later == {p \in positions : p >= pos} IN
  IF later = {} THEN Substr(text, pos, Len(text))
  ELSE LET p == CHOOSE x \in later : \A y \in later : x <= y
           n == Len(patternAtoms(regex.patterns[firstAlternative(text, regex, p, 1)]))
       IN Substr(text, pos, p) \o OpenMark \o Substr(text, p, p + n) \o CloseMark
          \o (IF n > 0 THEN highlightFrom(text, regex, positions, p + n)
              ELSE (IF p < Len(text) THEN <<text[p + 1]>> ELSE <<>>)
                   \o highlightFrom(text, regex, positions, p + 1))

highlight_nothing(text, regex) == text

highlight(text, regex) == highlightFrom(text, regex, matchPositions(text, regex), 0)

(***************************************************************************)
(* Transcript scanner.                                                     *)
(***************************************************************************)
\* The speaker filter test, negated: does the scan look at the utterance?
passesSpeakerFilter_all(utterance, filter) == TRUE

passesSpeakerFilter(utterance, filter) ==
  ~(filter # "all" /\ utterance.speaker_type # filter)

\* The test that admits a transcript to the results.
hasMatches_always(matchingUtterances) == TRUE

hasMatches(matchingUtterances) == Len(matchingUtterances) > 0

\* totalMatches += transcriptMatches.
addMatches_overwrite(totalMatches, transcriptMatches) == transcriptMatches

addMatches(totalMatches, transcriptMatches) == totalMatches + transcriptMatches

\* results.push(...): where a transcript with matches goes in the results.
pushResult_front(results, result) == <<result>> \o results

pushResult(results, result) == Append(results, result)

\* matchesAllTerms(utterance.text, ...) on an utterance that has no text:
\* text.toLowerCase() raises a TypeError when case is folded, and
\* searchText.includes() raises one at the first term otherwise.
matchRaises(utterance, terms, isCaseSensitive) ==
  /\ "text" \notin DOMAIN utterance
  /\ ~isCaseSensitive \/ Len(terms) > 0

\* {...utterance, index: i, matchCount: matchCount}.
taggedCopy_next(utterance, i, matchCount) ==
  [speaker_type |-> utterance.speaker_type, text |-> utterance.text,
   index |-> i + 1, matchCount |-> matchCount]

taggedCopy(utterance, i, matchCount) ==
  [speaker_type |-> utterance.speaker_type, text |-> utterance.text,
   index |-> i, matchCount |-> matchCount]

\* The inner for loop of performSearch from utterance index i (0-based) on.
\* Nothing catches a TypeError: it ends the loop and the run.
RECURSIVE scanUtterances(_, _, _, _, _, _, _)
scanUtterances(utterances, i, terms, filter, isCaseSensitive, matchingUtterances, transcriptMatches) ==
  IF i >= Len(utterances)
  THEN [threw |-> FALSE, matchingUtterances |-> matchingUtterances,
        transcriptMatches |-> transcriptMatches]
  ELSE LET utterance == utterances[i + 1] IN
       IF ~passesSpeakerFilter(utterance, filter)
       THEN scanUtterances(utterances, i + 1, terms, filter, isCaseSensitive,
                           matchingUtterances, transcriptMatches)
       ELSE IF matchRaises(utterance, terms, isCaseSensitive)
       THEN [threw |-> TRUE, matchingUtterances |-> matchingUtterances,
             transcriptMatches |-> transcriptMatches]
       ELSE IF matchesAllTerms(utterance.text, terms, isCaseSensitive)
       THEN LET matchCount == countMatches(utterance.text, terms, isCaseSensitive) IN
            scanUtterances(utterances, i + 1, terms, filter, isCaseSensitive,
                           Append(matchingUtterances, taggedCopy(utterance, i, matchCount)),
                           transcriptMatches + matchCount)
       ELSE scanUtterances(utterances, i + 1, terms, filter, isCaseSensitive,
                           matchingUtterances, transcriptMatches)

\* The outer for loop of performSearch from the k-th transcript on. A result
\* refers to its transcript by position in the corpus.
RECURSIVE scanTranscripts(_, _, _, _, _, _, _)
scanTranscripts(corpus, k, terms, filter, isCaseSensitive, results, totalMatches) ==
  IF k > Len(corpus)
  THEN [threw |-> FALSE, results |-> results, totalMatches |-> totalMatches]
  ELSE LET scan == scanUtterances(corpus[k].utterances, 0, terms, filter,
                                  isCaseSensitive, <<>>, 0)
       IN IF scan.threw
          THEN [threw |-> TRUE, results |-> results, totalMatches |-> totalMatches]
          ELSE IF hasMatches(scan.matchingUtterances)
          THEN scanTranscripts(corpus, k + 1, terms, filter, isCaseSensitive,
                               pushResult(results,
                                          [transcript |-> k,
                                           matchingUtterances |-> scan.matchingUtterances,
                                           totalMatches |-> scan.transcriptMatches]),
                               addMatches(totalMatches, scan.transcriptMatches))
          ELSE scanTranscripts(corpus, k + 1, terms, filter, isCaseSensitive,
                               results, totalMatches)

(***************************************************************************)
(* Result renderer.                                                        *)
(***************************************************************************)
\* The test that emits a context indicator before an utterance.
needsGap_positive(index, prevIndex) == index > prevIndex + 1 /\ prevIndex > 0

needsGap(index, prevIndex) == index > prevIndex + 1 /\ prevIndex >= 0

\* The for loop of renderUtterances from the k-th matching utterance on: the
\* html is a sequence of elements, a context indicator or an utterance.
RECURSIVE renderLoop(_, _, _, _)
renderLoop(matchingUtterances, highlightRegex, k, prevIndex) ==
  IF k > Len(matchingUtterances) THEN <<>>
  ELSE LET utterance == matchingUtterances[k] IN
       (IF needsGap(utterance.index, prevIndex)
        THEN <<[class |-> "context-indicator"]>> ELSE <<>>)
       \o <<[class |-> "utterance",
             speaker_type |-> utterance.speaker_type,
             text |-> highlight(utterance.text, highlightRegex)]>>
       \o renderLoop(matchingUtterances, highlightRegex, k + 1, utterance.index)

renderUtterances(matchingUtterances, highlightRegex) ==
  renderLoop(matchingUtterances, highlightRegex, 1, -2)

\* results.length === 0: the test that shows 'No matches found'.
noResults_never(results) == FALSE

noResults(results) == Len(results) = 0

\* The content renderResults gives the results container.
renderResults(corpus, results, terms, isCaseSensitive) ==
  IF noResults(results) THEN [view |-> "no-matches", cards |-> <<>>]
  ELSE LET highlightRegex == createHighlightRegex(terms, isCaseSensitive) IN
       [view |-> "cards",
        cards |-> [k \in 1..Len(results) |->
                     [id |-> corpus[results[k].transcript].id,
                      totalMatches |-> results[k].totalMatches,
                      utterances |-> renderUtterances(results[k].matchingUtterances,
                                                      highlightRegex)]]]

(***************************************************************************)
(* The page: performSearch, showEmptyState and the event handlers.         *)
(***************************************************************************)
\* Text of a statistic: the unset indicator '-' or a value.
Unset == [shown |-> "-"]
Shown(n) == [shown |-> "value", value |-> n]

StartView == [view |-> "start", cards |-> <<>>]

\* What showEmptyState writes.
showEmptyState_keepTime ==
  [resultCount |-> Unset, matchCount |-> Unset, searchTime |-> searchTimeEl,
   container |-> StartView]

showEmptyState ==
  [resultCount |-> Unset, matchCount |-> Unset, searchTime |-> Unset,
   container |-> StartView]

\* terms.length === 0: the parsed query has no term.
hasNoTerms_never(parsed) == FALSE

hasNoTerms(parsed) == Len(parsed) = 0

\* const results = []: the results a run starts from.
initialResults_kept == runResults

initialResults == <<>>

\* What a run that scanned the corpus to its end writes.
searchPage(corpus, scan, parsed, isCaseSensitive) ==
  [resultCount |-> Shown(Len(scan.results)),
   matchCount |-> Shown(scan.totalMatches),
   searchTime |-> Shown("ms"),
   container |-> renderResults(corpus, scan.results, parsed, isCaseSensitive)]

\* The locals of a run that scanned the corpus, and what it writes: nothing
\* when a TypeError ended it.
scannedRun(corpus, q, scan, parsed, isCaseSensitive) ==
  IF scan.threw
  THEN [threw |-> TRUE, query |-> q, terms |-> parsed, results |-> scan.results,
        totalMatches |-> scan.totalMatches, scanned |-> TRUE]
  ELSE [threw |-> FALSE, query |-> q, terms |-> parsed, results |-> scan.results,
        totalMatches |-> scan.totalMatches, scanned |-> TRUE,
        page |-> searchPage(corpus, scan, parsed, isCaseSensitive)]

\* One run of performSearch over the given input value and settings: its
\* locals and what it writes to the page. The elapsed time is not modelled
\* beyond being a value.
performSearch(corpus, value, filter, isCaseSensitive) ==
  LET q == trim(value)
      early == [threw |-> FALSE, query |-> q, terms |-> <<>>, results |-> <<>>,
                totalMatches |-> 0, scanned |-> FALSE, page |-> showEmptyState]
  IN IF q = <<>> THEN early
     ELSE LET parsed == parseSearchQuery(q) IN
          IF hasNoTerms(parsed) THEN early
          ELSE scannedRun(corpus, q,
                          scanTranscripts(corpus, 1, parsed, filter, isCaseSensitive,
                                          initialResults, 0),
                          parsed, isCaseSensitive)

\* The corpus after a run: matchingUtterances.push({...utterance, index,
\* matchCount}) tags a copy of the utterance, and the results refer to the
\* transcript, so the run leaves the corpus as it found it.
corpusAfterRun_tagged(corpus, results) ==
  [k \in 1..Len(corpus) |->
     [id |-> corpus[k].id,
      utterances |->
        [i \in 1..Len(corpus[k].utterances) |->
           IF \E r \in 1..Len(results) :
                /\ results[r].transcript = k
                /\ \E u \in 1..Len(results[r].matchingUtterances) :
                     results[r].matchingUtterances[u].index = i - 1
           THEN LET r == CHOOSE r \in 1..Len(results) : results[r].transcript = k
                    u == CHOOSE u \in 1..Len(results[r].matchingUtterances) :
                           results[r].matchingUtterances[u].index = i - 1
                IN results[r].matchingUtterances[u]
           ELSE corpus[k].utterances[i]]]]

corpusAfterRun(corpus, results) == corpus

\* The page and the locals a run of performSearch leaves behind.
Written(run) ==
  /\ TRANSCRIPTS' = corpusAfterRun(TRANSCRIPTS, run.results)
  /\ runQuery' = run.query
  /\ runTerms' = run.terms
  /\ runResults' = run.results
  /\ runTotalMatches' = run.totalMatches
  /\ scanned' = run.scanned
  /\ runThrew' = run.threw
  /\ IF run.threw
     THEN UNCHANGED statsVars
     ELSE /\ resultCountEl' = run.page.resultCount
          /\ matchCountEl' = run.page.matchCount
          /\ searchTimeEl' = run.page.searchTime
          /\ resultsContainer' = run.page.container

\* The page after a run of performSearch with the settings of the next state.
Searched(value, filter, isCaseSensitive) ==
  Written(performSearch(TRANSCRIPTS, value, filter, isCaseSensitive))

\* The keystrokes typed one after the other with no timer firing in between
\* (a burst), and the scans the timers have run since the last of them.
NoBurst == [keystrokes |-> 0, scans |-> 0]

UpToMaxBurst(n) == IF n > MaxBurst THEN MaxBurst ELSE n

typed(b) ==
  [keystrokes |-> IF b.scans > 0 THEN 1 ELSE UpToMaxBurst(b.keystrokes + 1),
   scans |-> 0]

fired(b) == [keystrokes |-> b.keystrokes, scans |-> UpToMaxBurst(b.scans + 1)]

\* setTimeout returns the id of the new timer. The browser never gives an
\* id twice; an id that is neither scheduled nor held by the listener cannot
\* be told from a new one, so the least such id stands for it.
newTimerId ==
  CHOOSE id \in 1..(Cardinality(timers) + 2) :
    /\ id \notin timers \cup {debounceTimer}
    /\ \A other \in 1..(id - 1) : other \in timers \cup {debounceTimer}

\* clearTimeout(id): the timer, if still scheduled, is cancelled.
clearTimeout_ignored(scheduled, id) == scheduled

clearTimeout(scheduled, id) == scheduled \ {id}

\* searchInput 'input' listener: the user edits the box; the scan the
\* listener scheduled before is cancelled and a new one scheduled.
Input(value) ==
  /\ inputValue' = value
  /\ timers' = clearTimeout(timers, debounceTimer) \cup {newTimerId}
  /\ debounceTimer' = newTimerId
  /\ handler' = "input"
  /\ burst' = typed(burst)
  /\ UNCHANGED <<TRANSCRIPTS, caseSensitive, speakerFilter, statsVars, runVars,
                 modalVars, observed, call, ret, assistantVars>>

\* The scheduled timer id fires: performSearch runs. The listener keeps the
\* id.
TimerFires(id) ==
  /\ id \in timers
  /\ timers' = timers \ {id}
  /\ handler' = "debounce"
  /\ Searched(inputValue, speakerFilter, caseSensitive)
  /\ burst' = fired(burst)
  /\ UNCHANGED <<inputValue, caseSensitive, speakerFilter, debounceTimer,
                 modalVars, observed, call, ret, assistantVars>>

DebounceFire == \E id \in timers : TimerFires(id)

\* caseToggle 'click' listener.
CaseToggle ==
  /\ caseSensitive' = ~caseSensitive
  /\ handler' = "caseToggle"
  /\ Searched(inputValue, speakerFilter, ~caseSensitive)
  /\ UNCHANGED <<inputValue, speakerFilter, debounceTimer, timers,
                 modalVars, observed, burst, call, ret, assistantVars>>

\* speakerFilter 'change' listener.
SpeakerChange(value) ==
  /\ value # speakerFilter
  /\ speakerFilter' = value
  /\ handler' = "speakerFilter"
  /\ Searched(inputValue, value, caseSensitive)
  /\ UNCHANGED <<inputValue, caseSensitive, debounceTimer, timers,
                 modalVars, observed, burst, call, ret, assistantVars>>

\* searchInput.value = '' of the Escape listener.
clearedValue_kept == inputValue

clearedValue == <<>>

\* The two document 'keydown' listeners on Escape: the box is cleared and
\* the empty state shown, and the modal, if open, is closed; a scheduled
\* timer is left alone.
Escape ==
  /\ inputValue' = clearedValue
  /\ handler' = "escape"
  /\ resultCountEl' = showEmptyState.resultCount
  /\ matchCountEl' = showEmptyState.matchCount
  /\ searchTimeEl' = showEmptyState.searchTime
  /\ resultsContainer' = showEmptyState.container
  /\ modalActive' = FALSE
  /\ UNCHANGED <<TRANSCRIPTS, caseSensitive, speakerFilter, debounceTimer, timers,
                 runVars, modalBody, observed, burst, call, ret, assistantVars>>

(***************************************************************************)
(* The full-transcript modal.                                              *)
(***************************************************************************)
\* The query as openTranscriptModal parses it: the quoted phrases without
\* their quotes, then the trimmed non-empty pieces, split on ';', of what
\* String.replace leaves of the query.
modalSearchTerms(currentQuery) ==
  IF currentQuery = <<>> THEN <<>>
  ELSE LET extracted == extractPhrases(currentQuery, 0, <<>>, currentQuery)
           pieces == split(extracted.remaining, SEMI)
       IN [i \in 1..Len(extracted.terms) |-> extracted.terms[i].value]
          \o filterNonEmpty([i \in 1..Len(pieces) |-> trim(pieces[i])])

\* new RegExp(`(${escaped})`, caseSensitive ? 'g' : 'gi') for one term.
modalRegex(term) == [patterns |-> <<escapeRegExp(term)>>, ignoreCase |-> ~caseSensitive]

\* The for loop of highlightTextInModal from the k-th term on: each term is
\* replaced in the result of the terms before it.
RECURSIVE modalHighlightLoop(_, _, _)
modalHighlightLoop(result, searchTerms, k) ==
  IF k > Len(searchTerms) THEN result
  ELSE IF searchTerms[k] = <<>> THEN modalHighlightLoop(result, searchTerms, k + 1)
  ELSE modalHighlightLoop(highlight(result, modalRegex(searchTerms[k])), searchTerms, k + 1)

highlightTextInModal(text, searchTerms) ==
  IF Len(searchTerms) = 0 THEN text ELSE modalHighlightLoop(text, searchTerms, 1)

\* The 'View Full' button of the card of the k-th transcript: every
\* utterance of the transcript goes into the modal, highlighted with the
\* terms of the value the search box holds now.
openTranscriptModal(k) ==
  /\ ~modalActive
  /\ \E c \in 1..Len(resultsContainer.cards) :
       resultsContainer.cards[c].id = TRANSCRIPTS[k].id
  /\ modalBody' =
       [i \in 1..Len(TRANSCRIPTS[k].utterances) |->
          [speaker_type |-> TRANSCRIPTS[k].utterances[i].speaker_type,
           text |-> highlightTextInModal(TRANSCRIPTS[k].utterances[i].text,
                                         modalSearchTerms(trim(inputValue)))]]
  /\ modalActive' = TRUE
  /\ handler' = "openModal"
  /\ UNCHANGED <<TRANSCRIPTS, inputValue, caseSensitive, speakerFilter, debounceTimer,
                 timers, statsVars, runVars, observed, burst, call, ret, assistantVars>>

\* The close button and the backdrop of the modal.
closeModal ==
  /\ modalActive
  /\ modalActive' = FALSE
  /\ handler' = "closeModal"
  /\ UNCHANGED <<TRANSCRIPTS, inputValue, caseSensitive, speakerFilter, debounceTimer,
                 timers, statsVars, runVars, modalBody, observed, burst, call, ret, assistantVars>>

(***************************************************************************)
(* assistant_server.py: the /api/ask endpoint and its calls.               *)
(***************************************************************************)
MAX_CONTEXT_CHARS == 20000
MAX_WAIT_TIME == 300
CHECK_INTERVAL == 2

\* str.split(): the pieces between runs of whitespace.
words(s) == filterNonEmpty(split(s, SPACE))

aggregate_keywords ==
  <<<<"m", "a", "i", "n">>,
    <<"c", "o", "m", "m", "o", "n">>,
    <<"m", "o", "s", "t">>,
    <<"o", "v", "e", "r", "a", "l", "l">>,
    <<"g", "e", "n", "e", "r", "a", "l">>,
    <<"t", "y", "p", "i", "c", "a", "l">>,
    <<"u", "s", "u", "a", "l", "l", "y">>,
    <<"o", "f", "t", "e", "n">>,
    <<"f", "r", "e", "q", "u", "e", "n", "t", "l", "y">>,
    <<"i", "s", "s", "u", "e", "s">>,
    <<"p", "r", "o", "b", "l", "e", "m", "s">>,
    <<"p", "a", "i", "n", "p", "o", "i", "n", "t", "s">>,
    <<"p", "a", "i", "n", " ", "p", "o", "i", "n", "t", "s">>,
    <<"c", "h", "a", "l", "l", "e", "n", "g", "e", "s">>,
    <<"c", "o", "m", "p", "l", "a", "i", "n", "t", "s">>,
    <<"s", "u", "m", "m", "a", "r", "i", "z", "e">>,
    <<"s", "u", "m", "m", "a", "r", "y">>,
    <<"p", "a", "t", "t", "e", "r", "n", "s">>,
    <<"t", "r", "e", "n", "d", "s">>>>

\* "summarize main issues", the question of the fallback.
FallbackQuestion == <<"s", "u", "m", "m", "a", "r", "i", "z", "e", " ", "m", "a", "i", "n", " ", "i", "s", "s", "u", "e", "s">>

\* len(TRANSCRIPTS) // 30: the sampling aims at about 30 transcripts.
SampleTarget == 30

\* max(1, len(TRANSCRIPTS) // 30).
sampleStep(corpus) ==
  IF Len(corpus) \div SampleTarget > 1 THEN Len(corpus) \div SampleTarget ELSE 1

\* if total_chars + t['char_count'] > max_chars: break.
overBudget_never(total_chars, char_count, max_chars) == FALSE

overBudget(total_chars, char_count, max_chars) == total_chars + char_count > max_chars

\* The selection loop of either branch from the k-th candidate on: it ends
\* at the first candidate that does not fit. Candidates are positions of the
\* corpus.
RECURSIVE selectLoop(_, _, _, _, _, _)
selectLoop(corpus, candidates, k, max_chars, selected, total_chars) ==
  IF k > Len(candidates) THEN selected
  ELSE LET t == corpus[candidates[k]] IN
       IF overBudget(total_chars, t.char_count, max_chars) THEN selected
       ELSE selectLoop(corpus, candidates, k + 1, max_chars,
                       Append(selected, candidates[k]), total_chars + t.char_count)

\* range(0, len(TRANSCRIPTS), step), as positions of the corpus.
RECURSIVE sampled(_, _, _)
sampled(corpus, i, step) ==
  IF i >= Len(corpus) THEN <<>> ELSE <<i + 1>> \o sampled(corpus, i + step, step)

\* [w for w in question_lower.split() if len(w) > 3].
RECURSIVE longWords(_)
longWords(ws) ==
  IF ws = <<>> THEN <<>>
  ELSE (IF Len(Head(ws)) > 3 THEN <<Head(ws)>> ELSE <<>>) \o longWords(Tail(ws))

\* sum(1 for kw in keywords if kw in text_lower).
RECURSIVE score(_, _)
score(keywords, text_lower) ==
  IF keywords = <<>> THEN 0
  ELSE (IF includes(text_lower, Head(keywords)) THEN 1 ELSE 0)
       + score(Tail(keywords), text_lower)

\* The transcripts of score > 0 with their scores, in corpus order.
RECURSIVE scoredFrom(_, _, _)
scoredFrom(corpus, k, keywords) ==
  IF k > Len(corpus) THEN <<>>
  ELSE LET n == score(keywords, toLowerCase(corpus[k].text)) IN
       (IF n > 0 THEN <<[score |-> n, t |-> k]>> ELSE <<>>)
       \o scoredFrom(corpus, k + 1, keywords)

\* scored.sort(key=lambda x: -x[0]): a stable sort, by insertion.
RECURSIVE insertByScore(_, _)
insertByScore(sorted, x) ==
  IF sorted = <<>> THEN <<x>>
  ELSE IF Head(sorted).score >= x.score THEN <<Head(sorted)>> \o insertByScore(Tail(sorted), x)
  ELSE <<x>> \o sorted

RECURSIVE sortByScore(_, _)
sortByScore(scored, k) ==
  IF k = 0 THEN <<>> ELSE insertByScore(sortByScore(scored, k - 1), scored[k])

\* find_relevant_transcripts: the positions of the corpus it selects, and
\* the number of calls of itself it took (calls counts this one).
RECURSIVE find_relevant_transcripts(_, _, _, _)
find_relevant_transcripts(corpus, question, max_chars, calls) ==
  LET question_lower == toLowerCase(question)
      is_aggregate == \E a \in 1..Len(aggregate_keywords) :
                        includes(question_lower, aggregate_keywords[a])
  IN IF is_aggregate
     THEN [selected |-> selectLoop(corpus, sampled(corpus, 0, sampleStep(corpus)), 1,
                                   max_chars, <<>>, 0),
           calls |-> calls]
     ELSE LET keywords == longWords(words(question_lower))
              scored == scoredFrom(corpus, 1, keywords)
              sorted == sortByScore(scored, Len(scored))
              selected == selectLoop(corpus, [k \in 1..Len(sorted) |-> sorted[k].t], 1,
                                     max_chars, <<>>, 0)
          IN IF selected = <<>>
             THEN find_relevant_transcripts(corpus, FallbackQuestion, max_chars, calls + 1)
             ELSE [selected |-> selected, calls |-> calls]

\* format_response on a short plain text, one with none of the patterns
\* the function removes or rewrites: the text in a paragraph. Texts are
\* sequences of pieces.
format_response(raw_response) ==
  <<"<div class='response-content'><p>">> \o raw_response \o <<"</p></div>">>

\* jsonify(...), status: the HTTP response of ask_question.
ErrorResponse(status, message) == [status |-> status, body |-> [error |-> message]]

\* return jsonify({'answer': ..., ...}) at the end of ask_question, HTTP 200,
\* whatever string call_runpod returned.
answerResponse(raw_answer, relevant, corpus) ==
  [status |-> 200,
   body |-> [answer |-> format_response(raw_answer),
             raw_output |-> raw_answer,
             transcripts_analyzed |-> Len(relevant),
             total_transcripts |-> Len(corpus)]]

\* while time.time() - start_time < MAX_WAIT_TIME.
withinWait_always(elapsed) == TRUE

withinWait(elapsed) == elapsed < MAX_WAIT_TIME

\* call_runpod returns raw_answer and ask_question answers with it; outcome
\* notes which return statement of call_runpod it was.
Answered(outcome, raw_answer, elapsed) ==
  server' = [server EXCEPT
               !.pc = "responded",
               !.outcome = outcome,
               !.elapsed = elapsed,
               !.response = answerResponse(raw_answer, server.relevant, server.TRANSCRIPTS)]

\* The head of the while loop of call_runpod, elapsed seconds after
\* start_time: the next status request starts, or the loop ends and
\* call_runpod returns the time-out message.
Poll(elapsed) ==
  IF withinWait(elapsed)
  THEN server' = [server EXCEPT !.pc = "get", !.elapsed = elapsed, !.requestedAt = elapsed]
  ELSE Answered("timed out", <<"Error: Request timed out">>, elapsed)

\* POST /api/ask arrives: ask_question up to the point where it answers or
\* call_runpod has sent its POST.
AskQuestion(question) ==
  /\ server.pc = "idle"
  /\ LET stripped == trim(question)
         relevant == find_relevant_transcripts(server.TRANSCRIPTS, stripped,
                                               MAX_CONTEXT_CHARS, 1).selected
         refused(response) ==
           [pc |-> "responded", TRANSCRIPTS |-> server.TRANSCRIPTS, question |-> stripped,
            outcome |-> "not called", response |-> response]
     IN server' =
          IF stripped = <<>> THEN refused(ErrorResponse(400, "No question provided"))
          ELSE IF server.TRANSCRIPTS = <<>>
          THEN refused(ErrorResponse(500, "No transcripts loaded"))
          ELSE IF relevant = <<>>
          THEN refused(ErrorResponse(500, "Could not find relevant transcripts"))
          ELSE [pc |-> "post", TRANSCRIPTS |-> server.TRANSCRIPTS, question |-> stripped,
                relevant |-> relevant, status |-> "none", elapsed |-> 0,
                requestedAt |-> 0, outcome |-> "none",
                response |-> [status |-> 0]]
  /\ UNCHANGED <<pageVars, call, ret, chat>>

\* What the POST to RunPod comes to: an exception (connection, time-out,
\* HTTP error status, body that is no JSON), a body without job id, or a
\* body with one.
PostOutcomes == {"exception", "no id", "accepted"}

Submitted(outcome) ==
  /\ server.pc = "post"
  /\ CASE outcome = "exception" ->
            Answered("submission error", <<"Error submitting to RunPod: ", "ConnectionError">>, 0)
       [] outcome = "no id" ->
            Answered("no job id", <<"Error: No job ID returned. Response: ", "{}">>, 0)
       [] outcome = "accepted" -> Poll(0)
  /\ UNCHANGED <<pageVars, call, ret, chat>>

\* The statuses a job can be reported in; "CANCELLED" stands for every
\* status the function does not know, a body without status included.
JobStatuses == {"COMPLETED", "FAILED", "IN_QUEUE", "IN_PROGRESS", "CANCELLED"}

\* Seconds a status request takes: each has a timeout of 30.
RequestDurations == {0, 1, 29}

\* Texts of the output of a completed job, stripped.
CompletedTexts == {<<"Refunds are the main issue.">>, <<"Error: Request timed out">>}

JobErrors == {"Unknown error", "out of memory"}

\* A status request ends, duration seconds after it started: with an
\* exception, or with the status of the job.
StatusReceived(duration, outcome) ==
  /\ server.pc = "get"
  /\ LET elapsed == server.elapsed + duration IN
     CASE outcome = "exception" ->
            Answered("status error", <<"Error checking status: ", "ReadTimeout">>, elapsed)
       [] outcome = "COMPLETED" ->
            \E text \in CompletedTexts : Answered("completed", text, elapsed)
       [] outcome = "FAILED" ->
            \E error \in JobErrors : Answered("failed", <<"Job failed: ", error>>, elapsed)
       [] outcome \in {"IN_QUEUE", "IN_PROGRESS"} ->
            server' = [server EXCEPT !.pc = "sleep", !.status = outcome, !.elapsed = elapsed]
       [] OTHER ->
            Answered("unknown status", <<"Unknown status: ", outcome>>, elapsed)
  /\ UNCHANGED <<pageVars, call, ret, chat>>

\* time.sleep(CHECK_INTERVAL) returns, and the loop comes round.
Slept ==
  /\ server.pc = "sleep"
  /\ Poll(server.elapsed + CHECK_INTERVAL)
  /\ UNCHANGED <<pageVars, call, ret, chat>>

(***************************************************************************)
(* The chat panel: sendChatMessage and what calls it.                      *)
(***************************************************************************)
RemoveAt(seq, i) == SubSeq(seq, 1, i - 1) \o SubSeq(seq, i + 1, Len(seq))

\* removeTypingIndicator(): one element of id typingIndicator, if any, goes.
removeTypingIndicator(typing) == IF typing > 0 THEN typing - 1 ELSE 0

\* if (!question || isAsking) return: the test that ends sendChatMessage
\* before it does anything.
sendRefused_blankOnly(question, isAsking) == question = <<>>

sendRefused(question, isAsking) == question = <<>> \/ isAsking

\* sendChatMessage() up to its fetch, called by the given event with the
\* given value in the chat box.
sendChatMessage(value, event) ==
  LET question == trim(value) IN
  IF sendRefused(question, chat.isAsking)
  THEN chat' = [chat EXCEPT !.chatInput = value, !.event = event]
  ELSE /\ chat.asked < MaxAsks
       /\ chat' = [chat EXCEPT
                     !.isAsking = TRUE,
                     !.sendDisabled = TRUE,
                     !.chatInput = <<>>,
                     !.welcome = FALSE,
                     !.messages = Append(@, [type |-> "user", content |-> question]),
                     !.typing = @ + 1,
                     !.thinking = TRUE,
                     !.calls = Append(@, "fetch"),
                     !.asked = @ + 1,
                     !.event = event]

\* The user edits the chat box.
ChatType(value) ==
  /\ chat' = [chat EXCEPT !.chatInput = value, !.event = "type"]
  /\ UNCHANGED <<pageVars, call, ret, server>>

\* A click on the send button, which a disabled button does not take.
SendClick ==
  /\ ~chat.sendDisabled
  /\ sendChatMessage(chat.chatInput, "click")
  /\ UNCHANGED <<pageVars, call, ret, server>>

\* handleChatKeydown on Enter without Shift.
EnterKey ==
  /\ sendChatMessage(chat.chatInput, "enter")
  /\ UNCHANGED <<pageVars, call, ret, server>>

\* askSuggestion(question): a click on a suggestion of the welcome block,
\* while the block is there; the question goes to the chat box and is sent.
askSuggestion(question) ==
  /\ chat.welcome
  /\ sendChatMessage(question, "suggestion")
  /\ UNCHANGED <<pageVars, call, ret, server>>

\* The last three statements of sendChatMessage, after the try and the
\* catch, for the i-th call under way, with the typing indicators left and
\* what was added to the messages.
chatFinished(i, typing, added, event) ==
  chat' = [chat EXCEPT
             !.isAsking = FALSE,
             !.sendDisabled = FALSE,
             !.typing = typing,
             !.thinking = FALSE,
             !.messages = @ \o added,
             !.calls = RemoveAt(@, i),
             !.event = event]

ErrorShown == <<[type |-> "error"]>>

\* The fetch of the i-th call under way settles: rejected (no connection),
\* or resolved with a response that is ok or not.
FetchSettles(i, outcome) ==
  /\ i \in 1..Len(chat.calls)
  /\ chat.calls[i] = "fetch"
  /\ CASE outcome = "network failure" ->
            chatFinished(i, removeTypingIndicator(chat.typing), ErrorShown, "network failure")
       [] outcome = "http error" ->
            chatFinished(i, removeTypingIndicator(removeTypingIndicator(chat.typing)),
                         ErrorShown, "http error")
       [] outcome = "ok" ->
            chat' = [chat EXCEPT !.typing = removeTypingIndicator(@),
                                 !.calls[i] = "json",
                                 !.event = "response"]
  /\ UNCHANGED <<pageVars, call, ret, server>>

\* response.json() of the i-th call under way settles: with an answer, with
\* a body that holds an error, or rejected (the body is no JSON).
BodySettles(i, outcome) ==
  /\ i \in 1..Len(chat.calls)
  /\ chat.calls[i] = "json"
  /\ CASE outcome = "answer" ->
            chatFinished(i, chat.typing, <<[type |-> "assistant"]>>, "answer")
       [] outcome = "error body" -> chatFinished(i, chat.typing, ErrorShown, "server error")
       [] outcome = "no json" ->
            chatFinished(i, removeTypingIndicator(chat.typing), ErrorShown, "body error")
  /\ UNCHANGED <<pageVars, call, ret, server>>

\* setTimeout(() => error.remove(), 5000) of showError: an error leaves the
\* messages.
ErrorExpires(i) ==
  /\ i \in 1..Len(chat.messages)
  /\ chat.messages[i].type = "error"
  /\ chat' = [chat EXCEPT !.messages = RemoveAt(@, i), !.event = "error expires"]
  /\ UNCHANGED <<pageVars, call, ret, server>>

(***************************************************************************)
(* An observer of the page: it notes, once, the run of performSearch that  *)
(* has just ended, to compare later runs with it.                          *)
(***************************************************************************)
NoRun == [seen |-> FALSE]

Observe ==
  /\ handler \in {"debounce", "caseToggle", "speakerFilter"}
  /\ ~observed.seen
  /\ observed' = [seen |-> TRUE, by |-> handler, value |-> inputValue,
                  filter |-> speakerFilter, isCaseSensitive |-> caseSensitive,
                  results |-> runResults, totalMatches |-> runTotalMatches,
                  resultCount |-> resultCountEl, matchCount |-> matchCountEl,
                  container |-> resultsContainer]
  /\ UNCHANGED <<TRANSCRIPTS, inputValue, caseSensitive, speakerFilter, debounceTimer,
                 timers, statsVars, handler, runVars, modalVars, burst, call, ret, assistantVars>>

(***************************************************************************)
(* Inputs.                                                                 *)
(***************************************************************************)
SeqsUpTo(S, n) == UNION {[1..k -> S] : k \in 0..n}

\* No function is being applied on its own.
NoCall == [fn |-> "none"]
NoReturn == [done |-> FALSE]

\* No request has reached the server, and the chat panel is as loaded.
NoRequest == [pc |-> "idle"]

\* The chat panel as loaded: the welcome block with its suggestions, no
\* message, nothing being asked.
ChatLoaded ==
  [chatInput |-> <<>>, isAsking |-> FALSE, sendDisabled |-> FALSE, welcome |-> TRUE,
   typing |-> 0, thinking |-> FALSE, messages |-> <<>>, calls |-> <<>>, asked |-> 0,
   event |-> "load"]

AssistantIdle ==
  /\ server = NoRequest
  /\ chat = ChatLoaded

\* One page, with no event yet.
PageFixed ==
  /\ TRANSCRIPTS = <<[id |-> 1, utterances |->
                        <<[speaker_type |-> "agent", text |-> <<"a", "b", " ", "a">>],
                          [speaker_type |-> "customer", text |-> <<"A", "b">>]>>]>>
  /\ inputValue = <<>>
  /\ caseSensitive = FALSE
  /\ speakerFilter = "all"
  /\ debounceTimer = 0
  /\ timers = {}
  /\ burst = NoBurst
  /\ handler = "load"

\* The page as loaded: the statistics and the results container as written
\* in the generated HTML, no search run yet.
PageLoaded ==
  /\ resultCountEl = Unset
  /\ matchCountEl = Unset
  /\ searchTimeEl = Unset
  /\ resultsContainer = StartView
  /\ runQuery = <<>>
  /\ runTerms = <<>>
  /\ runResults = <<>>
  /\ runTotalMatches = 0
  /\ scanned = FALSE
  /\ runThrew = FALSE
  /\ modalActive = FALSE
  /\ modalBody = <<>>
  /\ observed = NoRun

\* Texts of the utterances of a corpus (stripped, as ingestion leaves them).
CorpusTexts == {<<"a", "b", " ", "a">>, <<"A", "b">>}

Utterances == [speaker_type : {"agent", "customer"}, text : CorpusTexts]

UtteranceLists == SeqsUpTo(Utterances, MaxUtterances)

\* The utterances of the transcripts that fill a corpus up.
Filler ==
  <<[speaker_type |-> "agent", text |-> <<"a", "b", " ", "a">>],
    [speaker_type |-> "customer", text |-> <<"A", "b">>]>>

\* A corpus: its transcripts in file order, the id standing for the file
\* name. Every utterance list up to the bounds stands at every position of
\* the corpus, the other positions holding the filler.
Corpora ==
  UNION {{[k \in 1..n |-> [id |-> k, utterances |-> IF k = p THEN list ELSE Filler]] :
            p \in 1..n, list \in UtteranceLists} :
         n \in 1..MaxTranscripts}

\* Values of the search box: empty, blank, without terms, and with one or
\* two terms.
SearchInputs ==
  {<<>>, <<SPACE>>, <<SEMI>>, <<SEMI, SPACE, SEMI>>,
   <<"a">>, <<"A">>, <<SPACE, "b">>, <<"a", SEMI, "b">>,
   <<QUOTE, "b", SPACE, "a", QUOTE>>, <<QUOTE, QUOTE>>}

SpeakerFilters == {"all", "agent", "customer"}

\* One transcript: the agent says "Hello there", the customer "I need help".
ExampleCorpus ==
  <<[id |-> 1,
     utterances |->
       <<[speaker_type |-> "agent",
          text |-> <<"H", "e", "l", "l", "o", " ", "t", "h", "e", "r", "e">>],
         [speaker_type |-> "customer",
          text |-> <<"I", " ", "n", "e", "e", "d", " ", "h", "e", "l", "p">>]>>]>>

\* The values 'help' and 'hello;i' of the search box.
ExampleInputs == {<<"h", "e", "l", "p">>, <<"h", "e", "l", "l", "o", SEMI, "i">>}

(***************************************************************************)
(* SpecSearch: a scheduled scan runs, for every corpus, value of the       *)
(* search box, speaker filter and case setting within the bounds.          *)
(***************************************************************************)
InitSearch ==
  /\ \/ TRANSCRIPTS \in Corpora /\ inputValue \in SearchInputs
     \/ TRANSCRIPTS = ExampleCorpus /\ inputValue \in ExampleInputs
  /\ caseSensitive \in BOOLEAN
  /\ speakerFilter \in SpeakerFilters
  /\ debounceTimer = 1
  /\ timers = {1}
  /\ burst = typed(NoBurst)
  /\ handler = "input"
  /\ PageLoaded
  /\ AssistantIdle
  /\ call = NoCall
  /\ ret = NoReturn

NextSearch == DebounceFire

SpecSearch == InitSearch /\ [][NextSearch]_vars

\* The page generate_html gives for no transcript at all (main writes no
\* page then), with a value typed.
InitEmptyCorpus ==
  /\ TRANSCRIPTS = <<>>
  /\ inputValue \in SearchInputs
  /\ caseSensitive \in BOOLEAN
  /\ speakerFilter \in SpeakerFilters
  /\ debounceTimer = 1
  /\ timers = {1}
  /\ burst = typed(NoBurst)
  /\ handler = "input"
  /\ PageLoaded
  /\ AssistantIdle
  /\ call = NoCall
  /\ ret = NoReturn

\* SpecAnyCorpus: one search over any corpus, the empty one included.
SpecAnyCorpus == (InitSearch \/ InitEmptyCorpus) /\ [][NextSearch]_vars

(***************************************************************************)
(* SpecMalformed: a scheduled scan runs over a corpus one of whose         *)
(* utterances has no text. The build always writes a text; such a corpus   *)
(* stands for embedded data of another origin.                             *)
(***************************************************************************)
MalformedUtterances == [speaker_type : {"agent", "customer"}]

\* The utterance lists, not empty, with exactly one utterance without text.
MalformedLists ==
  {list \in SeqsUpTo(Utterances \cup MalformedUtterances, MaxUtterances) :
     Cardinality({i \in 1..Len(list) : "text" \notin DOMAIN list[i]}) = 1}

MalformedCorpora ==
  UNION {{[k \in 1..n |-> [id |-> k, utterances |-> IF k = p THEN list ELSE Filler]] :
            p \in 1..n, list \in MalformedLists} :
         n \in 1..MaxTranscripts}

InitMalformed ==
  /\ TRANSCRIPTS \in MalformedCorpora
  /\ inputValue \in SearchInputs
  /\ caseSensitive \in BOOLEAN
  /\ speakerFilter \in SpeakerFilters
  /\ debounceTimer = 1
  /\ timers = {1}
  /\ burst = typed(NoBurst)
  /\ handler = "input"
  /\ PageLoaded
  /\ AssistantIdle
  /\ call = NoCall
  /\ ret = NoReturn

SpecMalformed == InitMalformed /\ [][DebounceFire]_vars

(***************************************************************************)
(* Spec: the page under any interleaving of its events.                    *)
(***************************************************************************)
PageCorpora ==
  {<<[id |-> 1, utterances |-> <<[speaker_type |-> "agent", text |-> <<"a", "b", " ", "a">>],
                                 [speaker_type |-> "customer", text |-> <<"A", "b">>]>>]>>,
   <<[id |-> 1, utterances |-> <<[speaker_type |-> "customer", text |-> <<"b">>]>>],
     [id |-> 2, utterances |-> <<[speaker_type |-> "agent", text |-> <<"A", "b">>],
                                 [speaker_type |-> "customer", text |-> <<"b">>],
                                 [speaker_type |-> "agent", text |-> <<"a", "b", " ", "a">>]>>]>>}

PageInputs ==
  {<<>>, <<SEMI>>, <<"a">>, <<"a", SEMI, "b">>, <<"b", SEMI, "a">>,
   <<QUOTE, "b", SPACE, "a", QUOTE>>}

Init ==
  /\ TRANSCRIPTS \in PageCorpora
  /\ inputValue = <<>>
  /\ caseSensitive = FALSE
  /\ speakerFilter = "all"
  /\ debounceTimer = 0
  /\ timers = {}
  /\ burst = NoBurst
  /\ handler = "load"
  /\ PageLoaded
  /\ AssistantIdle
  /\ call = NoCall
  /\ ret = NoReturn

\* The events of the search controls, the user typing values of the given
\* set.
SearchEvent(values) ==
  \/ \E value \in values : Input(value)
  \/ DebounceFire
  \/ CaseToggle
  \/ \E value \in SpeakerFilters : SpeakerChange(value)
  \/ Escape

Next ==
  \/ SearchEvent(PageInputs)
  \/ \E k \in 1..Len(TRANSCRIPTS) : openTranscriptModal(k)
  \/ closeModal

Spec == Init /\ [][Next]_vars

(***************************************************************************)
(* SpecRepeat: the search controls under any interleaving of their events, *)
(* with the observer.                                                      *)
(***************************************************************************)
RepeatInputs == {<<>>, <<"a">>, <<"b", SEMI, "a">>}

NextRepeat == SearchEvent(RepeatInputs) \/ Observe

SpecRepeat == Init /\ [][NextRepeat]_vars

(***************************************************************************)
(* SpecQuiesce: the search controls under any interleaving of their        *)
(* events, where a timer that stays scheduled fires in the end.            *)
(***************************************************************************)
\* The ids a timer gets: with at most one scheduled and one held, the
\* least free id is one of three.
TimerIds == {1, 2, 3}

NextQuiesce == SearchEvent(RepeatInputs)

\* WF_vars(TimerFires(id)) written out. TimerFires(id) is enabled exactly
\* when id is scheduled, and a step that takes id from the scheduled timers
\* and runs the timer's callback is a step of it.
TimerFairness(id) ==
  \/ []<>(id \notin timers)
  \/ []<><<id \in timers /\ timers' = timers \ {id} /\ handler' = "debounce">>_vars

SpecQuiesce ==
  Init /\ [][NextQuiesce]_vars /\ \A id \in TimerIds : TimerFairness(id)

(***************************************************************************)
(* SpecAsk: one request to /api/ask, from its arrival to its response. The *)
(* handler runs on: a request to RunPod ends, by its timeout at the        *)
(* latest, and a sleep returns.                                            *)
(***************************************************************************)
\* Transcripts as load_transcripts keeps them; the text stands for a longer
\* one of char_count characters with the same words.
\* A transcript as load_transcripts keeps it: the text stands for the words
\* of the condensed text a question can ask for, char_count for its length.
ServerTranscript(id, text, char_count) == [id |-> id, text |-> text, char_count |-> char_count]

RefundText == <<"C", "u", "s", "t", "o", "m", "e", "r", ":", " ", "r", "e", "f", "u", "n", "d">>
LateText == <<"A", "g", "e", "n", "t", ":", " ", "l", "a", "t", "e", " ", "r", "e", "f", "u", "n", "d">>

AskCorpora ==
  {<<>>,
   <<ServerTranscript(1, RefundText, 12000), ServerTranscript(2, LateText, 8000)>>,
   <<ServerTranscript(1, LateText, 21000), ServerTranscript(2, RefundText, 8000)>>}

\* "", "late refund", "Main", "late".
AskQuestions ==
  {<<>>, <<"l", "a", "t", "e", " ", "r", "e", "f", "u", "n", "d">>, <<"M", "a", "i", "n">>,
   <<" ", "l", "a", "t", "e">>}

InitAsk ==
  /\ PageFixed
  /\ PageLoaded
  /\ call = NoCall
  /\ ret = NoReturn
  /\ chat = ChatLoaded
  /\ server \in {[pc |-> "idle", TRANSCRIPTS |-> corpus] : corpus \in AskCorpora}

NextAsk ==
  \/ \E question \in AskQuestions : AskQuestion(question)
  \/ \E outcome \in PostOutcomes : Submitted(outcome)
  \/ \E duration \in RequestDurations, outcome \in JobStatuses \cup {"exception"} :
       StatusReceived(duration, outcome)
  \/ Slept

SpecAsk == InitAsk /\ [][NextAsk]_vars /\ WF_vars(NextAsk)

(***************************************************************************)
(* SpecChat: the chat panel under any interleaving of its events and the   *)
(* settling of its requests.                                               *)
(***************************************************************************)
\* Values typed in the chat box: empty, blank, a question.
ChatValues == {<<>>, <<SPACE>>, <<"h", "i">>}

\* The suggestions of the welcome block (two of the three).
Suggestions ==
  {<<"What are the main issues faced by customers?">>,
   <<"What are the common pain points?">>}

InitChat ==
  /\ PageFixed
  /\ PageLoaded
  /\ call = NoCall
  /\ ret = NoReturn
  /\ server = NoRequest
  /\ chat = ChatLoaded

NextChat ==
  \/ \E value \in ChatValues : ChatType(value)
  \/ SendClick
  \/ EnterKey
  \/ \E question \in Suggestions : askSuggestion(question)
  \/ \E i \in 1..MaxAsks, outcome \in {"network failure", "http error", "ok"} :
       FetchSettles(i, outcome)
  \/ \E i \in 1..MaxAsks, outcome \in {"answer", "error body", "no json"} :
       BodySettles(i, outcome)
  \/ \E i \in 1..(2 * MaxAsks) : ErrorExpires(i)

SpecChat == InitChat /\ [][NextChat]_vars

(***************************************************************************)
(* Functions of the page applied on their own: call holds the function and *)
(* its arguments, ret its return value.                                    *)
(***************************************************************************)
\* The page at rest while a function is applied on its own.
PageIdle ==
  /\ PageFixed
  /\ PageLoaded
  /\ AssistantIdle

Returns(value) ==
  /\ ~ret.done
  /\ ret' = [done |-> TRUE, value |-> value]
  /\ UNCHANGED <<call, pageVars, assistantVars>>

\* The characters queries are enumerated over.
QueryAlphabet == {"a", "b", SEMI, QUOTE, SPACE}

\* '"a b";c;"d"' and '""a"a"a"'.
ExampleQueries ==
  {<<QUOTE, "a", SPACE, "b", QUOTE, SEMI, "c", SEMI, QUOTE, "d", QUOTE>>,
   <<QUOTE, QUOTE, "a", QUOTE, "a", QUOTE, "a", QUOTE>>}

\* performSearch parses the trimmed value of the search box, and only when
\* it is not empty.
ParseQueries ==
  {q \in SeqsUpTo(QueryAlphabet, MaxQueryLen) \cup ExampleQueries :
     q # <<>> /\ trim(q) = q}

InitParse ==
  /\ PageIdle
  /\ call \in {[fn |-> "parseSearchQuery", query |-> q] : q \in ParseQueries}
  /\ ret = NoReturn

ParseCall ==
  /\ call.fn = "parseSearchQuery"
  /\ Returns(parseSearchQuery(call.query))

SpecParse == InitParse /\ [][ParseCall]_vars

\* The characters texts are enumerated over, and the term values.
MatchAlphabet == {"a", "A", "b"}

MatchTexts == SeqsUpTo(MatchAlphabet, MaxTextLen)

TermValues == {<<"a">>, <<"a", "a">>, <<"A", "b">>, <<"b", "a">>}

\* Term lists as the parser builds them: the phrases, then the keywords.
TermListsOver(values, maxTerms) ==
  UNION {{[k \in 1..n |-> [type |-> IF k <= p THEN "phrase" ELSE "keyword",
                           value |-> v[k]]] :
            p \in 0..n, v \in [1..n -> values]} :
         n \in 0..maxTerms}

Keyword(value) == [type |-> "keyword", value |-> value]
Phrase(value) == [type |-> "phrase", value |-> value]

\* "Hello" against hello, "foo bar" against foo and baz, "aaa" against aa,
\* "abc" against ab and bc.
ExampleMatches ==
  {[text |-> <<"H", "e", "l", "l", "o">>, terms |-> <<Keyword(<<"h", "e", "l", "l", "o">>)>>],
   [text |-> <<"f", "o", "o", " ", "b", "a", "r">>,
    terms |-> <<Keyword(<<"f", "o", "o">>), Keyword(<<"b", "a", "z">>)>>],
   [text |-> <<"a", "a", "a">>, terms |-> <<Keyword(<<"a", "a">>)>>],
   [text |-> <<"a", "b", "c">>, terms |-> <<Keyword(<<"a", "b">>), Keyword(<<"b", "c">>)>>]}

MatchArguments ==
  [text : MatchTexts, terms : TermListsOver(TermValues, MaxTerms)] \cup ExampleMatches

InitMatch ==
  /\ PageIdle
  /\ call \in {[fn |-> f, text |-> a.text, terms |-> a.terms, isCaseSensitive |-> c] :
                 f \in {"matchesAllTerms", "countMatches"}, a \in MatchArguments,
                 c \in BOOLEAN}
  /\ ret = NoReturn

MatchesAllTermsCall ==
  /\ call.fn = "matchesAllTerms"
  /\ Returns(matchesAllTerms(call.text, call.terms, call.isCaseSensitive))

CountMatchesCall ==
  /\ call.fn = "countMatches"
  /\ Returns(countMatches(call.text, call.terms, call.isCaseSensitive))

NextMatch == MatchesAllTermsCall \/ CountMatchesCall

SpecMatch == InitMatch /\ [][NextMatch]_vars

(***************************************************************************)
(* SpecHighlight: the highlighter of the cards and the highlighter of the  *)
(* modal applied on their own, under either case setting.                  *)
(***************************************************************************)
\* The characters texts are enumerated over, and the term values.
HighlightAlphabet == {"a", "A", "b", "."}

HighlightTexts == SeqsUpTo(HighlightAlphabet, MaxTextLen)

HighlightValues == {<<"a">>, <<"b">>, <<".">>, <<"a", "b">>, <<"m", "a", "r", "k">>}

HighlightTermLists == SeqsUpTo(HighlightValues, MaxTerms)

InitHighlight ==
  /\ TRANSCRIPTS = <<[id |-> 1, utterances |-> Filler]>>
  /\ inputValue = <<>>
  /\ caseSensitive \in BOOLEAN
  /\ speakerFilter = "all"
  /\ debounceTimer = 0
  /\ timers = {}
  /\ burst = NoBurst
  /\ handler = "load"
  /\ PageLoaded
  /\ AssistantIdle
  /\ call \in {[fn |-> f, text |-> t, searchTerms |-> l] :
                 f \in {"highlight", "highlightTextInModal"}, t \in HighlightTexts,
                 l \in HighlightTermLists}
  /\ ret = NoReturn

\* renderResults builds the expression from the terms and the case toggle,
\* and renderUtterances replaces with it in the text of an utterance.
HighlightCall ==
  /\ call.fn = "highlight"
  /\ Returns(highlight(call.text,
                       createHighlightRegex(keywordTerms(call.searchTerms), caseSensitive)))

HighlightTextInModalCall ==
  /\ call.fn = "highlightTextInModal"
  /\ Returns(highlightTextInModal(call.text, call.searchTerms))

NextHighlight == HighlightCall \/ HighlightTextInModalCall

SpecHighlight == InitHighlight /\ [][NextHighlight]_vars

\* The matching utterances of a transcript whose utterances at the chosen
\* indices match the term 'a'.
RECURSIVE MatchingAt(_, _)
MatchingAt(chosen, i) ==
  IF i > MaxIndex THEN <<>>
  ELSE (IF chosen[i]
        THEN <<[speaker_type |-> IF i % 2 = 0 THEN "agent" ELSE "customer",
                text |-> <<"a">>, index |-> i, matchCount |-> 1]>>
        ELSE <<>>)
       \o MatchingAt(chosen, i + 1)

InitRender ==
  /\ PageIdle
  /\ call \in {[fn |-> "renderUtterances",
                matchingUtterances |-> MatchingAt(chosen, 0),
                highlightRegex |-> createHighlightRegex(<<Keyword(<<"a">>)>>, FALSE)] :
                 chosen \in [0..MaxIndex -> BOOLEAN]}
  /\ ret = NoReturn

RenderCall ==
  /\ call.fn = "renderUtterances"
  /\ Returns(renderUtterances(call.matchingUtterances, call.highlightRegex))

SpecRender == InitRender /\ [][RenderCall]_vars

(***************************************************************************)
(* SpecRelevant: find_relevant_transcripts applied on its own, to every    *)
(* list of loaded transcripts up to MaxLoaded and to one long enough for  *)
(* the sampling to skip transcripts.                                       *)
(***************************************************************************)
GreetingText == <<"A", "g", "e", "n", "t", ":", " ", "h", "e", "l", "l", "o">>

LoadedTexts == {RefundText, LateText, GreetingText}

LoadedSizes == {8000, 12000, 21000}

LoadedCorpora ==
  UNION {{[k \in 1..n |-> ServerTranscript(k, texts[k], sizes[k])] :
            texts \in [1..n -> LoadedTexts], sizes \in [1..n -> LoadedSizes]} :
         n \in 0..MaxLoaded}

\* Twice as many transcripts as the sampling aims at, of 700 characters
\* each: the sampling takes every second one.
LargeCorpus ==
  [k \in 1..(2 * SampleTarget) |->
     ServerTranscript(k, IF k % 2 = 1 THEN RefundText ELSE LateText, 700)]

\* "late refund", "Main", "late" and "hi", which has no keyword.
RelevantQuestions == (AskQuestions \ {<<>>}) \cup {<<"h", "i">>}

InitRelevant ==
  /\ PageIdle
  /\ call \in {[fn |-> "find_relevant_transcripts", corpus |-> corpus,
                 question |-> question, max_chars |-> MAX_CONTEXT_CHARS] :
                  corpus \in LoadedCorpora \cup {LargeCorpus},
                  question \in RelevantQuestions}
  /\ ret = NoReturn

RelevantCall ==
  /\ call.fn = "find_relevant_transcripts"
  /\ Returns(find_relevant_transcripts(call.corpus, call.question, call.max_chars, 1))

SpecRelevant == InitRelevant /\ [][RelevantCall]_vars

(***************************************************************************)
(* Properties.                                                             *)
(***************************************************************************)
\* The handlers that end with a run of performSearch.
SearchHandlers == {"debounce", "caseToggle", "speakerFilter"}

\* Are two characters the same, up to case when not case sensitive?
SameChar(c, d, isCaseSensitive) ==
  IF isCaseSensitive THEN c = d ELSE LowerChar(c) = LowerChar(d)

\* Does value occur in text as a substring?
Contains(text, value, isCaseSensitive) ==
  \E pos \in 0..(Len(text) - Len(value)) :
    \A k \in 1..Len(value) : SameChar(text[pos + k], value[k], isCaseSensitive)

\* Does an utterance pass the speaker filter and contain every term?
Qualifies(utterance, termList, filter, isCaseSensitive) ==
  /\ filter = "all" \/ utterance.speaker_type = filter
  /\ \A k \in 1..Len(termList) : Contains(utterance.text, termList[k].value, isCaseSensitive)

\* The positions of the corpus whose transcript has a qualifying utterance.
QualifyingTranscripts ==
  {k \in 1..Len(TRANSCRIPTS) :
     \E i \in 1..Len(TRANSCRIPTS[k].utterances) :
       Qualifies(TRANSCRIPTS[k].utterances[i], runTerms, speakerFilter, caseSensitive)}

ResultTranscripts == {runResults[r].transcript : r \in 1..Len(runResults)}

RECURSIVE SumSeq(_)
SumSeq(numbers) == IF numbers = <<>> THEN 0 ELSE Head(numbers) + SumSeq(Tail(numbers))

\* C1: after a search whose query has at least one term, a transcript is in
\* the results (and on a card) iff one of its utterances passes the speaker
\* filter and contains every term; no result has an empty list of matching
\* utterances.
C1_ResultsIffQualifying ==
  (handler \in SearchHandlers /\ Len(runTerms) > 0) =>
    /\ ResultTranscripts = QualifyingTranscripts
    /\ \A r \in 1..Len(runResults) : Len(runResults[r].matchingUtterances) > 0
    /\ Len(resultsContainer.cards) = Len(runResults)
    /\ \A r \in 1..Len(runResults) :
         resultsContainer.cards[r].id = TRANSCRIPTS[runResults[r].transcript].id

\* A search under a speaker filter has put one transcript in the results and
\* left another out.
C1_Witness ==
  /\ handler \in SearchHandlers
  /\ Len(runTerms) > 0
  /\ speakerFilter # "all"
  /\ ResultTranscripts # {}
  /\ ResultTranscripts # 1..Len(TRANSCRIPTS)

\* C4: a search over an empty or blank value of the search box, or one with
\* no term, shows the start view with unset statistics and does not scan.
C4_NoTermsShowsEmptyState ==
  (/\ handler \in SearchHandlers
   /\ (trim(inputValue) = <<>> \/ Len(parseSearchQuery(trim(inputValue))) = 0)) =>
    /\ resultsContainer = StartView
    /\ resultCountEl = Unset
    /\ matchCountEl = Unset
    /\ searchTimeEl = Unset
    /\ ~scanned

\* A search ran over a value that is not blank and has no term.
C4_Witness ==
  /\ handler \in SearchHandlers
  /\ trim(inputValue) # <<>>
  /\ Len(parseSearchQuery(trim(inputValue))) = 0
  /\ Len(TRANSCRIPTS) = MaxTranscripts

\* The corpus with the text of every utterance the filter excludes replaced.
WithExcludedText(corpus, filter, text) ==
  [k \in 1..Len(corpus) |->
     [id |-> corpus[k].id,
      utterances |->
        [i \in 1..Len(corpus[k].utterances) |->
           IF filter = "all" \/ corpus[k].utterances[i].speaker_type = filter
           THEN corpus[k].utterances[i]
           ELSE [speaker_type |-> corpus[k].utterances[i].speaker_type, text |-> text]]]]

\* C8: after a search under a speaker filter, every matching utterance is of
\* the filtered speaker type, and the same search over the corpus with the
\* texts of the excluded utterances replaced (by the empty text or by any
\* text of the corpus) gives the same results, totals and page.
C8_ExcludedUtterancesInvisible ==
  (handler \in SearchHandlers /\ scanned /\ speakerFilter # "all") =>
    /\ \A r \in 1..Len(runResults) :
         \A m \in 1..Len(runResults[r].matchingUtterances) :
           LET matching == runResults[r].matchingUtterances[m] IN
           /\ matching.speaker_type = speakerFilter
           /\ TRANSCRIPTS[runResults[r].transcript].utterances[matching.index + 1].speaker_type
                = speakerFilter
    /\ \A text \in CorpusTexts \cup {<<>>} :
         LET other == performSearch(WithExcludedText(TRANSCRIPTS, speakerFilter, text),
                                    inputValue, speakerFilter, caseSensitive)
         IN /\ other.results = runResults
            /\ other.totalMatches = runTotalMatches
            /\ other.page.resultCount = resultCountEl
            /\ other.page.matchCount = matchCountEl
            /\ other.page.container = resultsContainer

\* A filtered search has matched, over a corpus with an excluded utterance
\* that contains every term.
C8_Witness ==
  /\ handler \in SearchHandlers
  /\ scanned
  /\ speakerFilter # "all"
  /\ Len(runResults) > 0
  /\ \E k \in 1..Len(TRANSCRIPTS) :
       \E i \in 1..Len(TRANSCRIPTS[k].utterances) :
         /\ TRANSCRIPTS[k].utterances[i].speaker_type # speakerFilter
         /\ Qualifies(TRANSCRIPTS[k].utterances[i], runTerms, "all", caseSensitive)

\* C10: after a search with at least one term, the match statistic is the sum
\* of the results' totals, each total is the sum of the match counts of its
\* matching utterances, and the transcript statistic is the number of
\* transcripts with a qualifying utterance.
C10_TotalsAreSums ==
  (handler \in SearchHandlers /\ Len(runTerms) > 0) =>
    /\ matchCountEl = Shown(SumSeq([r \in 1..Len(runResults) |-> runResults[r].totalMatches]))
    /\ \A r \in 1..Len(runResults) :
         runResults[r].totalMatches =
           SumSeq([m \in 1..Len(runResults[r].matchingUtterances) |->
                     runResults[r].matchingUtterances[m].matchCount])
    /\ resultCountEl = Shown(Cardinality(QualifyingTranscripts))

\* A search has two transcripts in its results, one with several matching
\* utterances.
C10_Witness ==
  /\ handler \in SearchHandlers
  /\ Len(runResults) = 2
  /\ \E r \in 1..Len(runResults) : Len(runResults[r].matchingUtterances) = 2
  /\ matchCountEl.value > 3

\* C11: after a scan the results are a subsequence of the corpus in corpus
\* order and the cards stand in the same order; within a result the matching
\* utterances are the qualifying utterances in utterance order, and each is
\* the utterance of the parent transcript at the position its index names.
C11_ResultsInCorpusOrder ==
  (handler \in SearchHandlers /\ scanned) =>
    /\ \A r \in 1..Len(runResults) :
         /\ runResults[r].transcript \in 1..Len(TRANSCRIPTS)
         /\ r > 1 => runResults[r - 1].transcript < runResults[r].transcript
         /\ resultsContainer.cards[r].id = TRANSCRIPTS[runResults[r].transcript].id
    /\ \A r \in 1..Len(runResults) :
         LET utterances == TRANSCRIPTS[runResults[r].transcript].utterances
             matching == runResults[r].matchingUtterances
         IN /\ {matching[m].index + 1 : m \in 1..Len(matching)} =
              {i \in 1..Len(utterances) :
                 Qualifies(utterances[i], runTerms, speakerFilter, caseSensitive)}
            /\ \A m \in 1..Len(matching) :
              /\ matching[m].index \in 0..(Len(utterances) - 1)
              /\ m > 1 => matching[m - 1].index < matching[m].index
              /\ matching[m].text = utterances[matching[m].index + 1].text
              /\ matching[m].speaker_type = utterances[matching[m].index + 1].speaker_type

\* A scan has two results, and in one of them a matching utterance whose
\* index is not its place among the matches.
C11_Witness ==
  /\ handler \in SearchHandlers
  /\ scanned
  /\ Len(runResults) = 2
  /\ \E r \in 1..Len(runResults) :
       /\ Len(runResults[r].matchingUtterances) = 1
       /\ runResults[r].matchingUtterances[1].index = 1

\* C13: over the corpus of one transcript where the agent says "Hello there"
\* and the customer "I need help", the query 'help' under the filter 'all'
\* reports 1 transcript and 1 match; the only matching utterance is the
\* customer's, index 1, and its rendered text is "I need " followed by
\* "help" between the opening and the closing highlight marker.
C13_HelpExample ==
  (/\ handler \in SearchHandlers
   /\ TRANSCRIPTS = ExampleCorpus
   /\ trim(inputValue) = <<"h", "e", "l", "p">>
   /\ speakerFilter = "all") =>
    /\ resultCountEl = Shown(1)
    /\ matchCountEl = Shown(1)
    /\ Len(runResults) = 1
    /\ runResults[1].matchingUtterances =
         <<[speaker_type |-> "customer", text |-> ExampleCorpus[1].utterances[2].text,
            index |-> 1, matchCount |-> 1]>>
    /\ resultsContainer.view = "cards"
    /\ Len(resultsContainer.cards) = 1
    /\ resultsContainer.cards[1].utterances =
         <<[class |-> "utterance", speaker_type |-> "customer",
            text |-> <<"I", " ", "n", "e", "e", "d", " ">>
                     \o OpenMark \o <<"h", "e", "l", "p">> \o CloseMark]>>

\* The query 'help' has been searched for in the example corpus, under the
\* filter 'all' and without regard to case.
C13_Witness ==
  /\ handler \in SearchHandlers
  /\ TRANSCRIPTS = ExampleCorpus
  /\ inputValue = <<"h", "e", "l", "p">>
  /\ speakerFilter = "all"
  /\ ~caseSensitive
  /\ scanned

\* The corpus with the empty text given to every utterance that has none.
WithEmptyText(corpus) ==
  [k \in 1..Len(corpus) |->
     [id |-> corpus[k].id,
      utterances |->
        [i \in 1..Len(corpus[k].utterances) |->
           IF "text" \in DOMAIN corpus[k].utterances[i]
           THEN corpus[k].utterances[i]
           ELSE [speaker_type |-> corpus[k].utterances[i].speaker_type, text |-> <<>>]]]]

\* C14: a run of performSearch over a corpus with an utterance without text
\* does not raise, and reports what it reports over the corpus with the
\* empty text in that utterance: the utterance does not match and every
\* matching utterance with a text is in the results.
C14_MissingTextReadAsEmpty ==
  handler \in SearchHandlers =>
    /\ ~runThrew
    /\ LET other == performSearch(WithEmptyText(TRANSCRIPTS), inputValue, speakerFilter,
                                  caseSensitive)
       IN /\ runResults = other.results
          /\ runTotalMatches = other.totalMatches
          /\ resultCountEl = other.page.resultCount
          /\ matchCountEl = other.page.matchCount
          /\ resultsContainer = other.page.container

\* Has a run of performSearch just ended whose query, speaker filter and case
\* setting are those of the run the observer noted?
RepeatsObserved ==
  /\ observed.seen
  /\ handler \in SearchHandlers
  /\ trim(inputValue) = trim(observed.value)
  /\ speakerFilter = observed.filter
  /\ caseSensitive = observed.isCaseSensitive

\* C12: a run of performSearch with the query, speaker filter and case
\* setting of an earlier run gives the results (match counts included),
\* totals, statistics and cards of that run, whatever ran in between.
C12_SameArgumentsSameOutcome ==
  RepeatsObserved =>
    /\ runResults = observed.results
    /\ runTotalMatches = observed.totalMatches
    /\ resultCountEl = observed.resultCount
    /\ matchCountEl = observed.matchCount
    /\ resultsContainer = observed.container

\* A change of the speaker filter has repeated, with matches, a run the
\* observer noted when a timer fired: the speaker filter was changed and
\* changed back in between.
C12_Witness ==
  /\ RepeatsObserved
  /\ observed.by = "debounce"
  /\ handler = "speakerFilter"
  /\ Len(runResults) > 0

\* The fields ingestion gives an utterance.
UtteranceFields == {"speaker_type", "text"}

\* C22: the corpus is read-only after load. No search, toggle, filter
\* change, Escape, render or opening of the modal changes a transcript or an
\* utterance of TRANSCRIPTS: the index and matchCount tags go to the copies
\* in the results, never to the utterances of the corpus, and no
\* speaker_type changes.
C22_CorpusReadOnly ==
  /\ [](\A k \in 1..Len(TRANSCRIPTS) : \A i \in 1..Len(TRANSCRIPTS[k].utterances) :
          DOMAIN TRANSCRIPTS[k].utterances[i] = UtteranceFields)
  /\ [][TRANSCRIPTS' = TRANSCRIPTS]_vars

\* The modal is open on a transcript a search has put in the results, whose
\* copies of the matching utterances carry the tags.
C22_Witness ==
  /\ handler = "openModal"
  /\ Len(runResults) > 0
  /\ \A r \in 1..Len(runResults) : \A u \in 1..Len(runResults[r].matchingUtterances) :
       /\ runResults[r].matchingUtterances[u].matchCount > 0
       /\ "index" \in DOMAIN runResults[r].matchingUtterances[u]
       /\ "index" \notin DOMAIN TRANSCRIPTS[runResults[r].transcript].utterances[runResults[r].matchingUtterances[u].index + 1]

\* Has the client been sent an answer: HTTP 200 with an 'answer' and no
\* 'error'?
DeliveredAsAnswer ==
  /\ server.response.status = 200
  /\ "answer" \in DOMAIN server.response.body
  /\ "error" \notin DOMAIN server.response.body

\* C23: ask_question can tell the terminal states of call_runpod apart, and
\* the client is sent an answer only when the job completed: a failed job, a
\* timed-out one, a submission error and an unknown status reach it as
\* errors.
C23_FailuresNotAnswers ==
  server.pc = "responded" =>
    (DeliveredAsAnswer <=> server.outcome = "completed")

\* Is call_runpod between its submission and its return?
Polling == server.pc \in {"get", "sleep"}

\* A status request was started within the wait; the function sleeps only
\* on a job in the queue or in progress; the time-out is returned only once
\* the wait is over.
PollsWithinWait ==
  /\ server.pc = "get" => server.requestedAt < MAX_WAIT_TIME
  /\ server.pc = "sleep" => server.status \in {"IN_QUEUE", "IN_PROGRESS"}
  /\ (server.pc = "responded" /\ server.outcome = "timed out") =>
       server.elapsed >= MAX_WAIT_TIME

\* A status request ends in the return of the function or in a sleep; a
\* sleep lasts CHECK_INTERVAL and ends in the next status request or, the
\* wait over, in the time-out; nothing follows the return.
PollStep ==
  /\ server.pc = "get" => server'.pc \in {"sleep", "responded"}
  /\ (server.pc = "get" /\ server'.pc = "responded") =>
       server'.outcome \in {"completed", "failed", "unknown status", "status error"}
  /\ server.pc = "sleep" =>
       /\ server'.elapsed = server.elapsed + CHECK_INTERVAL
       /\ IF server'.elapsed < MAX_WAIT_TIME
          THEN server'.pc = "get" /\ server'.requestedAt = server'.elapsed
          ELSE server'.pc = "responded" /\ server'.outcome = "timed out"
  /\ server.pc = "responded" => server' = server

C25_NoMatchesIsNotEmptyQuery ==
  (/\ handler \in SearchHandlers
   /\ Len(parseSearchQuery(trim(inputValue))) > 0
   /\ QualifyingTranscripts = {}) =>
    /\ scanned
    /\ ~runThrew
    /\ resultsContainer = [view |-> "no-matches", cards |-> <<>>]
    /\ resultsContainer # StartView
    /\ resultCountEl = Shown(0)
    /\ matchCountEl = Shown(0)
    /\ searchTimeEl # Unset

\* A search with a term has run over the empty corpus.
C25_Witness ==
  /\ handler \in SearchHandlers
  /\ TRANSCRIPTS = <<>>
  /\ Len(runTerms) > 0
  /\ scanned
  /\ resultsContainer.view = "no-matches"

\* Do the statistics and the results container show the page a run wrote?
Displays(run) ==
  /\ ~run.threw
  /\ resultCountEl = run.page.resultCount
  /\ matchCountEl = run.page.matchCount
  /\ searchTimeEl = run.page.searchTime
  /\ resultsContainer = run.page.container

\* The display is that of a search over the value the box holds and the
\* settings in force.
DisplayCurrent ==
  Displays(performSearch(TRANSCRIPTS, inputValue, speakerFilter, caseSensitive))

SendEvents == {"click", "enter", "suggestion"}

CompletionEvents == {"answer", "server error", "http error", "network failure", "body error"}

\* At most one request is under way, and isAsking says whether one is; with
\* none, the send button is enabled and no typing indicator is shown.
OneRequest ==
  /\ Len(chat.calls) <= 1
  /\ chat.isAsking <=> Len(chat.calls) = 1
  /\ chat.sendDisabled <=> chat.isAsking
  /\ chat.typing <= 1
  /\ chat.typing = 1 => chat.isAsking
  /\ chat.event \in CompletionEvents =>
       ~chat.isAsking /\ ~chat.sendDisabled /\ chat.typing = 0

\* A send attempt while a request is under way starts no request and adds
\* no message.
RefusedWhileAsking ==
  (chat.isAsking /\ chat'.event \in SendEvents) =>
    /\ chat'.calls = chat.calls
    /\ chat'.messages = chat.messages
    /\ chat'.asked = chat.asked
    /\ chat'.isAsking

\* C27: the isAsking guard serialises the chat requests. Under any
\* interleaving of send clicks, Enter presses, suggestion clicks and
\* responses at most one request to /api/ask is under way, a send attempt
\* made meanwhile starts no request and adds no message, and after every
\* way a request can end (answer, error in the body, HTTP error, network
\* failure, unreadable body) isAsking is false, the send button enabled and
\* the typing indicator gone.
C27_ChatRequestsSerialised == []OneRequest /\ [][RefusedWhileAsking]_vars

\* Enter was pressed on a question while the request of an earlier one was
\* under way: nothing was sent.
C27_Witness ==
  /\ chat.event = "enter"
  /\ chat.isAsking
  /\ trim(chat.chatInput) # <<>>
  /\ Len(chat.calls) = 1
  /\ chat.asked = 1

\* The matching utterances of all results, counted.
MatchingUtteranceCount ==
  SumSeq([r \in 1..Len(runResults) |-> Len(runResults[r].matchingUtterances)])

\* C28: every search result is non-trivial. Each recorded utterance has a
\* matchCount of at least the number of terms, which is at least 1; so every
\* result has totalMatches >= 1 and the total is at least the number of
\* matching utterances. The recorded indices lie within the transcript and
\* increase strictly.
C28_ResultsNonTrivial ==
  (handler \in SearchHandlers /\ scanned) =>
    /\ Len(runTerms) >= 1
    /\ \A r \in 1..Len(runResults) :
         LET result == runResults[r]
             recorded == result.matchingUtterances
         IN /\ result.totalMatches >= 1
            /\ \A u \in 1..Len(recorded) :
                 /\ recorded[u].matchCount >= Len(runTerms)
                 /\ recorded[u].index \in
                      0..(Len(TRANSCRIPTS[result.transcript].utterances) - 1)
                 /\ u > 1 => recorded[u].index > recorded[u - 1].index
    /\ runTotalMatches >= MatchingUtteranceCount

\* A search with two terms has recorded the last utterance of a transcript,
\* after another one of it.
C28_Witness ==
  /\ handler \in SearchHandlers
  /\ Len(runTerms) = 2
  /\ \E r \in 1..Len(runResults) :
       LET recorded == runResults[r].matchingUtterances IN
       /\ Len(recorded) >= 2
       /\ recorded[Len(recorded)].index =
            Len(TRANSCRIPTS[runResults[r].transcript].utterances) - 1

\* The handlers that end with an execution: a run of performSearch, or the
\* reset of the Escape key.
ExecutionHandlers == SearchHandlers \cup {"escape"}

\* Is the execution that has just ended one of the 'no query' state: Escape,
\* or a run over a blank value or a value without terms?
NoQueryExecuted ==
  \/ handler = "escape"
  \/ trim(inputValue) = <<>>
  \/ Len(parseSearchQuery(trim(inputValue))) = 0

\* The statistics an execution that has just ended leaves: unset for the
\* 'no query' state, else the number of transcripts with a qualifying
\* utterance, the total of the run and an elapsed time.
StatisticsOfExecution ==
  IF NoQueryExecuted
  THEN /\ resultCountEl = Unset
       /\ matchCountEl = Unset
       /\ searchTimeEl = Unset
  ELSE /\ resultCountEl = Shown(Cardinality(QualifyingTranscripts))
       /\ matchCountEl = Shown(runTotalMatches)
       /\ searchTimeEl = Shown("ms")
       /\ (QualifyingTranscripts = {} =>
             resultCountEl = Shown(0) /\ matchCountEl = Shown(0))

\* C19: the statistics are never stale. Right after an execution they are
\* all unset when it was the 'no query' state (blank value, no term, or
\* Escape) and all overwritten with its own values when it was a real query,
\* 0 and 0 when nothing matches; and no other event touches them.
C19_StatisticsNeverStale ==
  /\ [](handler \in ExecutionHandlers => StatisticsOfExecution)
  /\ [][handler' \notin ExecutionHandlers => UNCHANGED statsVars]_vars

\* The Escape key has reset the statistics of a run that had results.
C19_Witness ==
  /\ handler = "escape"
  /\ Len(runResults) > 0
  /\ runTotalMatches > 0
  /\ resultCountEl = Unset

\* At most one scan is pending, the one the listener holds the id of; it is
\* pending exactly from the last keystroke of a burst until it has run, and
\* no burst has had a second scan.
SingleSlot ==
  /\ Cardinality(timers) <= 1
  /\ timers \subseteq {debounceTimer}
  /\ timers # {} <=> (burst.keystrokes > 0 /\ burst.scans = 0)
  /\ burst.scans <= 1

\* An input event leaves its own new timer as the only one scheduled; a
\* timer that fires runs one scan over the value the box holds then, and
\* leaves none scheduled.
SingleSlotStep ==
  /\ handler' = "input" =>
       /\ timers' = {debounceTimer'}
       /\ debounceTimer' \notin timers \cup {debounceTimer}
  /\ handler' = "debounce" =>
       /\ timers' = {}
       /\ scanned' = (Len(parseSearchQuery(trim(inputValue))) > 0)
       /\ runQuery' = trim(inputValue)
       /\ runTerms' = parseSearchQuery(trim(inputValue))

\* C20: the debounce is a single slot. Every input event cancels the scan
\* scheduled before and schedules a new one, at most one scan is pending at
\* any time, and a burst of keystrokes gets one scan, after its last
\* keystroke, over the value the box holds when the timer fires.
C20_DebounceSingleSlot == []SingleSlot /\ [][SingleSlotStep]_vars

\* The timer of a burst of two keystrokes or more has fired: one scan ran,
\* over the value of the last keystroke, and none is pending.
C20_Witness ==
  /\ handler = "debounce"
  /\ burst.keystrokes >= 2
  /\ burst.scans = 1
  /\ timers = {}
  /\ runQuery = inputValue
  /\ Len(runTerms) > 1

\* C2: matchesAllTerms over a non-empty term list is true exactly when the
\* text contains the value of every term, phrase or keyword alike, up to
\* case unless case sensitive; "Hello" matches hello only when case
\* insensitive, and "foo bar" never matches foo and baz.
C2_MatchesIffContainsEvery ==
  (call.fn = "matchesAllTerms" /\ ret.done /\ Len(call.terms) > 0) =>
    /\ ret.value <=>
         \A k \in 1..Len(call.terms) :
           Contains(call.text, call.terms[k].value, call.isCaseSensitive)
    /\ call.text = <<"H", "e", "l", "l", "o">> => (ret.value <=> ~call.isCaseSensitive)
    /\ call.text = <<"f", "o", "o", " ", "b", "a", "r">> => ~ret.value

\* A case-insensitive match of a phrase and a keyword, one of which differs
\* from the text in case.
C2_Witness ==
  /\ call.fn = "matchesAllTerms"
  /\ ret.done
  /\ ret.value
  /\ ~call.isCaseSensitive
  /\ Len(call.terms) = 2
  /\ call.terms[1].type = "phrase"
  /\ call.terms[2].type = "keyword"
  /\ \E k \in 1..2 : ~Contains(call.text, call.terms[k].value, TRUE)

\* The orders a list of n terms can be put in.
Orders(n) ==
  {order \in [1..n -> 1..n] : \A i, j \in 1..n : order[i] = order[j] => i = j}

Permuted(terms, order) == [k \in 1..Len(terms) |-> terms[order[k]]]

\* C21: matchesAllTerms and countMatches return the same value for every
\* order of the term list, whatever the text and the case setting.
C21_TermOrderIrrelevant ==
  ret.done =>
    \A order \in Orders(Len(call.terms)) :
      ret.value =
        IF call.fn = "matchesAllTerms"
        THEN matchesAllTerms(call.text, Permuted(call.terms, order), call.isCaseSensitive)
        ELSE countMatches(call.text, Permuted(call.terms, order), call.isCaseSensitive)

\* countMatches has counted the occurrences of two terms of different
\* values, one of which the text has and the other not.
C21_Witness ==
  /\ ret.done
  /\ call.fn = "countMatches"
  /\ Len(call.terms) >= 2
  /\ call.terms[1].value # call.terms[2].value
  /\ ret.value >= 2
  /\ \E k \in 1..2 : countMatches(call.text, <<call.terms[k]>>, call.isCaseSensitive) = 0

\* C15: matchesAllTerms over the empty term list is false, for every text
\* and case setting.
C15_NoTermsMatchNothing ==
  (call.fn = "matchesAllTerms" /\ ret.done /\ call.terms = <<>>) => ret.value = FALSE

\* The characters of html outside its markers, from position pos on, read
\* left to right; ok tells whether the markers pair up, an opening one, then
\* a closing one, none inside another. inside: is an opening marker waiting
\* for its closing one?
RECURSIVE Unmarked(_, _, _)
Unmarked(html, pos, inside) ==
  IF pos >= Len(html) THEN [ok |-> ~inside, text |-> <<>>]
  ELSE IF OccursAt(html, OpenMark, pos)
       THEN IF inside THEN [ok |-> FALSE, text |-> <<>>]
            ELSE Unmarked(html, pos + Len(OpenMark), TRUE)
  ELSE IF OccursAt(html, CloseMark, pos)
       THEN IF ~inside THEN [ok |-> FALSE, text |-> <<>>]
            ELSE Unmarked(html, pos + Len(CloseMark), FALSE)
  ELSE LET rest == Unmarked(html, pos + 1, inside)
       IN [ok |-> rest.ok, text |-> <<html[pos + 1]>> \o rest.text]

\* Do the markers of html pair up around characters of text, the text being
\* what is left once they are taken out?
MarkersWrapTextOnly(html, text) ==
  LET unmarked == Unmarked(html, 0, FALSE) IN unmarked.ok /\ unmarked.text = text

\* C16: in the marked text both highlighters return, the markers pair up,
\* none stands inside another or inside a marker's tag, and without them the
\* utterance text is left: every marker wraps characters of the text only.
C16_MarkersWrapTextOnly ==
  (call.fn \in {"highlight", "highlightTextInModal"} /\ ret.done) =>
    MarkersWrapTextOnly(ret.value, call.text)

\* What the modal is to show of the k-th transcript: every utterance, its
\* text marked as the cards mark it, by the one combined expression of the
\* terms of the query in the search box, and unmarked when there is none.
MarkedAsCards(k) ==
  LET parsed == parseSearchQuery(trim(inputValue)) IN
  [i \in 1..Len(TRANSCRIPTS[k].utterances) |->
     [speaker_type |-> TRANSCRIPTS[k].utterances[i].speaker_type,
      text |-> IF Len(parsed) = 0 THEN TRANSCRIPTS[k].utterances[i].text
               ELSE highlight(TRANSCRIPTS[k].utterances[i].text,
                              createHighlightRegex(parsed, caseSensitive))]]

\* C17: once opened, the modal shows every utterance of a transcript,
\* whatever the speaker filter and whether it matches or not, with the
\* marked text the highlighter of the cards gives for the query in the
\* search box and the case setting.
C17_ModalMarksAsCards ==
  handler = "openModal" =>
    \E k \in 1..Len(TRANSCRIPTS) : modalBody = MarkedAsCards(k)

\* C18: with no term, both highlighters return the text as it is.
C18_NoTermsNoMarker ==
  (/\ call.fn \in {"highlight", "highlightTextInModal"}
   /\ ret.done
   /\ call.searchTerms = <<>>) =>
    ret.value = call.text

\* The contents of the markers of html from position pos on, left to right.
RECURSIVE MarkedSpans(_, _)
MarkedSpans(html, pos) ==
  IF pos >= Len(html) THEN <<>>
  ELSE IF OccursAt(html, OpenMark, pos)
       THEN LET start == pos + Len(OpenMark)
                closes == {q \in start..Len(html) : OccursAt(html, CloseMark, q)}
            IN IF closes = {} THEN <<>>
               ELSE LET q == CHOOSE x \in closes : \A y \in closes : x <= y
                    IN <<Substr(html, start, q)>> \o MarkedSpans(html, q + Len(CloseMark))
  ELSE MarkedSpans(html, pos + 1)

\* Is the text that of an utterance of a result card: are there terms, all
\* of them in the text?
RenderedInCard(text, terms) ==
  Len(terms) >= 1 /\ matchesAllTerms(text, terms, caseSensitive)

\* C29: the marked text of an utterance of a result card has at least one
\* marker and no more markers than the utterance's matchCount; what a marker
\* wraps is the value of a term, up to case when the search ignores case, a
\* metacharacter of a term standing for itself; and without the markers the
\* utterance text is left.
C29_HighlightsAgreeWithCounts ==
  (/\ call.fn = "highlight"
   /\ ret.done
   /\ RenderedInCard(call.text, keywordTerms(call.searchTerms))) =>
    LET terms == keywordTerms(call.searchTerms)
        spans == MarkedSpans(ret.value, 0)
    IN /\ Len(spans) >= 1
       /\ Len(spans) <= countMatches(call.text, terms, caseSensitive)
       /\ \A n \in 1..Len(spans) :
            \E k \in 1..Len(terms) :
              foldCase(spans[n], caseSensitive) = foldCase(terms[k].value, caseSensitive)
       /\ MarkersWrapTextOnly(ret.value, call.text)

\* An utterance with a dot, a letter and an upper-case letter has been
\* marked for the terms dot and a, the case ignored: the dot is marked as a
\* dot, and the upper-case letter as the term a.
C29_Witness ==
  /\ call.fn = "highlight"
  /\ ret.done
  /\ ~caseSensitive
  /\ call.searchTerms = <<<<".">>, <<"a">>>>
  /\ call.text = <<"b", ".", "A">>
  /\ MarkedSpans(ret.value, 0) = <<<<".">>, <<"A">>>>

\* The positions of the occurrences of value in text a left-to-right scan
\* counts: an occurrence counts iff no counted occurrence overlaps its start.
CountedPositions(text, value) ==
  LET counted[p \in 0..Len(text)] ==
        /\ \A k \in 1..Len(value) :
             p + k <= Len(text) /\ text[p + k] = value[k]
        /\ \A q \in 0..(p - 1) : q + Len(value) > p => ~counted[q]
  IN {p \in 0..Len(text) : counted[p]}

Folded(s, isCaseSensitive) ==
  [i \in 1..Len(s) |-> IF isCaseSensitive THEN s[i] ELSE LowerChar(s[i])]

\* C3: countMatches is the sum over the terms, each on its own, of the
\* non-overlapping left-to-right occurrences of the term's value in the
\* text; "aaa" against aa counts 1 and "abc" against ab and bc counts 2.
C3_CountIsSumOfNonOverlapping ==
  (call.fn = "countMatches" /\ ret.done) =>
    /\ ret.value =
         SumSeq([k \in 1..Len(call.terms) |->
                   Cardinality(CountedPositions(
                     Folded(call.text, call.isCaseSensitive),
                     Folded(call.terms[k].value, call.isCaseSensitive)))])
    /\ (call.text = <<"a", "a", "a">> /\ call.terms = <<Keyword(<<"a", "a">>)>>)
         => ret.value = 1
    /\ (call.text = <<"a", "b", "c">>
        /\ call.terms = <<Keyword(<<"a", "b">>), Keyword(<<"b", "c">>)>>)
         => ret.value = 2

\* "aaa" has been counted against aa.
C3_Witness ==
  /\ call.fn = "countMatches"
  /\ ret.done
  /\ call.text = <<"a", "a", "a">>
  /\ call.terms = <<Keyword(<<"a", "a">>)>>

C5Query == <<QUOTE, "a", SPACE, "b", QUOTE, SEMI, "c", SEMI, QUOTE, "d", QUOTE>>

\* C5 as claimed: '"a b";c;"d"' parses to phrase "a b", keyword "c", phrase
\* "d", the terms in their order in the query.
C5_TermsInQueryOrder ==
  (call.fn = "parseSearchQuery" /\ call.query = C5Query /\ ret.done) =>
    ret.value = <<Phrase(<<"a", SPACE, "b">>), Keyword(<<"c">>), Phrase(<<"d">>)>>

\* C5 as amended: '"a b";c;"d"' parses to phrase "a b", phrase "d", keyword
\* "c": the phrases in their order, then the keyword, quotes stripped.
C5_PhrasesBeforeKeyword ==
  (call.fn = "parseSearchQuery" /\ call.query = C5Query /\ ret.done) =>
    ret.value = <<Phrase(<<"a", SPACE, "b">>), Phrase(<<"d">>), Keyword(<<"c">>)>>

\* '"a b";c;"d"' has been parsed.
C5_Witness ==
  /\ call.fn = "parseSearchQuery"
  /\ call.query = C5Query
  /\ ret.done

\* Is query[i..j] (1-based) a quote, one or more non-quotes and a quote?
IsQuoted(q, i, j) ==
  /\ j > i + 1
  /\ q[i] = QUOTE
  /\ q[j] = QUOTE
  /\ \A m \in (i + 1)..(j - 1) : q[m] # QUOTE

\* The matched quoted occurrences of a query from position from on, left to
\* right, none overlapping another.
RECURSIVE QuotedOccurrences(_, _)
QuotedOccurrences(q, from) ==
  LET starts == {i \in from..Len(q) : \E j \in i..Len(q) : IsQuoted(q, i, j)} IN
  IF starts = {} THEN <<>>
  ELSE LET i == CHOOSE x \in starts : \A y \in starts : x <= y
           j == CHOOSE y \in i..Len(q) : IsQuoted(q, i, y)
       IN <<[from |-> i, to |-> j]>> \o QuotedOccurrences(q, j + 1)

\* The query without the characters of its matched quoted occurrences.
RECURSIVE Remainder(_, _, _)
Remainder(q, occurrences, i) ==
  IF i > Len(q) THEN <<>>
  ELSE (IF \E o \in 1..Len(occurrences) : occurrences[o].from <= i /\ i <= occurrences[o].to
        THEN <<>> ELSE <<q[i]>>)
       \o Remainder(q, occurrences, i + 1)

\* C6: the parser returns the phrases in their order of appearance, quotes
\* removed, then the keywords in their order: the non-empty trimmed pieces,
\* split on ';', of the query without its matched quoted occurrences.
C6_PhrasesThenKeywordsOfRemainder ==
  (call.fn = "parseSearchQuery" /\ ret.done) =>
    LET occurrences == QuotedOccurrences(call.query, 1)
        pieces == split(Remainder(call.query, occurrences, 1), SEMI)
        kept == filterNonEmpty([i \in 1..Len(pieces) |-> trim(pieces[i])])
    IN ret.value =
         [o \in 1..Len(occurrences) |->
            Phrase(SubSeq(call.query, occurrences[o].from + 1, occurrences[o].to - 1))]
         \o [i \in 1..Len(kept) |-> Keyword(kept[i])]

\* C7: the query '""' parses to no term at all.
C7_EmptyQuotesNoTerm ==
  (call.fn = "parseSearchQuery" /\ call.query = <<QUOTE, QUOTE>> /\ ret.done) =>
    ret.value = <<>>

\* C9: in the rendering of a transcript's matching utterances, every
\* utterance is rendered in order, a context indicator stands only right
\* before an utterance, and it stands before a matching utterance exactly
\* when that is not the first one and its index is not the previous one's
\* index + 1; matches at 2, 3 and 7 give one indicator, before the third.
C9_GapIffNotContiguous ==
  (call.fn = "renderUtterances" /\ ret.done) =>
    LET html == ret.value
        matching == call.matchingUtterances
        utteranceNo(e) == Cardinality({d \in 1..e : html[d].class = "utterance"})
    IN /\ utteranceNo(Len(html)) = Len(matching)
       /\ \A e \in 1..Len(html) :
            html[e].class = "context-indicator" =>
              e < Len(html) /\ html[e + 1].class = "utterance"
       /\ \A e \in 1..Len(html) :
            html[e].class = "utterance" =>
              LET k == utteranceNo(e) IN
              (e > 1 /\ html[e - 1].class = "context-indicator")
                <=> (k > 1 /\ matching[k].index # matching[k - 1].index + 1)
       /\ [k \in 1..Len(matching) |-> matching[k].index] = <<2, 3, 7>> =>
            [e \in 1..Len(html) |-> html[e].class]
              = <<"utterance", "utterance", "context-indicator", "utterance">>

\* The matches at 2, 3 and 7 have been rendered.
C9_Witness ==
  /\ call.fn = "renderUtterances"
  /\ ret.done
  /\ [k \in 1..Len(call.matchingUtterances) |-> call.matchingUtterances[k].index]
       = <<2, 3, 7>>

\* Does the question hold one of the aggregate keywords?
IsAggregate(question) ==
  \E a \in 1..Len(aggregate_keywords) :
    includes(toLowerCase(question), aggregate_keywords[a])

\* The keywords of the question found in the p-th transcript, counted.
KeywordScore(corpus, question, p) ==
  score(longWords(words(toLowerCase(question))), toLowerCase(corpus[p].text))

\* The candidates of a selection, as positions of the corpus: the sampled
\* transcripts, or those with a keyword of the question.
Candidates(corpus, question, sampling) ==
  IF sampling THEN {p \in 1..Len(corpus) : (p - 1) % sampleStep(corpus) = 0}
  ELSE {p \in 1..Len(corpus) : KeywordScore(corpus, question, p) > 0}

\* Does candidate a come before candidate b: in corpus order when sampling,
\* else by decreasing score, and in corpus order at equal scores.
Before(corpus, question, sampling, a, b) ==
  IF sampling THEN a < b
  ELSE \/ KeywordScore(corpus, question, a) > KeywordScore(corpus, question, b)
       \/ KeywordScore(corpus, question, a) = KeywordScore(corpus, question, b) /\ a < b

\* The candidates no other of the given candidates comes before.
FirstOf(corpus, question, sampling, candidates) ==
  {u \in candidates :
     \A v \in candidates : v = u \/ Before(corpus, question, sampling, u, v)}

CharsOf(corpus, selected) ==
  SumSeq([i \in 1..Len(selected) |-> corpus[selected[i]].char_count])

\* Did the selection returned come from the sampling branch?
Sampling == IsAggregate(call.question) \/ ret.value.calls = 2

Selected == {ret.value.selected[i] : i \in 1..Len(ret.value.selected)}

\* The transcripts returned hold at most max_chars characters.
WithinBudget == CharsOf(call.corpus, ret.value.selected) <= call.max_chars

\* The transcripts returned are candidates in their order, with no
\* candidate left out before the last of them.
TakenInOrder ==
  LET selected == ret.value.selected
      candidates == Candidates(call.corpus, call.question, Sampling)
  IN /\ Selected \subseteq candidates
     /\ \A i, j \in 1..Len(selected) :
          i < j => Before(call.corpus, call.question, Sampling, selected[i], selected[j])
     /\ \A u \in candidates \ Selected :
          \A i \in 1..Len(selected) :
            Before(call.corpus, call.question, Sampling, selected[i], u)

\* The first candidate not returned is one that did not fit.
StopsAtFirstOver ==
  \A u \in FirstOf(call.corpus, call.question, Sampling,
                   Candidates(call.corpus, call.question, Sampling) \ Selected) :
    CharsOf(call.corpus, ret.value.selected) + call.corpus[u].char_count > call.max_chars

\* The function calls itself at most once, and only from the keyword branch.
RecursesAtMostOnce ==
  /\ ret.value.calls \in {1, 2}
  /\ ret.value.calls = 2 => ~IsAggregate(call.question)

\* Is the first candidate of the question's own branch over the budget?
FirstCandidateOver ==
  \E u \in FirstOf(call.corpus, call.question, IsAggregate(call.question),
                   Candidates(call.corpus, call.question, IsAggregate(call.question))) :
    call.corpus[u].char_count > call.max_chars

\* C30: find_relevant_transcripts keeps to the budget and ends. The
\* transcripts it returns hold at most max_chars characters; the selection
\* ends at the first candidate that does not fit; the candidates of the
\* keyword branch are taken by non-increasing score; the function calls
\* itself at most once; and when the first candidate alone is over the
\* budget nothing is returned, which ask_question answers with an error.
C30_SelectionWithinBudget ==
  (call.fn = "find_relevant_transcripts" /\ ret.done) =>
    /\ WithinBudget
    /\ TakenInOrder
    /\ StopsAtFirstOver
    /\ RecursesAtMostOnce
    /\ FirstCandidateOver => ret.value.selected = <<>>

====
